---- MODULE Spec2Model ----
(***************************************************************************)
(* synthBTC: the simulation engine (synthBTC.js, listed in                 *)
(* research-script/README.md), MonteCarloEngine, CSVHandler, Utils,        *)
(* APICore and ServerCore, as a state machine.  One step of the model is   *)
(* one synchronous segment of JavaScript between two awaits: Node runs     *)
(* such a segment to completion, and other callbacks interleave only at    *)
(* the awaits.                                                             *)
(***************************************************************************)
EXTENDS Integers, Sequences, FiniteSets, TLC

\* ------------------------------------------------------------------ bounds
\* Calls of getSimulationData the model follows (timer, startup, reads).
MaxRuns == 2
\* Overview requests (GET /api/overview) the model follows.
MaxReads == 2
\* Largest totalSimulations of a configuration.
MaxCount == 3
\* The batch size of executeFullSimulation and the chunk size of the raw
\* file writer.  Both are the literal 5000 in the source; the model scales
\* the number down so that runs of one, two and more batches are reachable.
desiredBatchSize == 2
\* Times the process is stopped and started again on the stored files.
MaxRestarts == 1
\* Ids of one GET /api/simulations/:ids request.
MaxIds == 2
\* Largest totalSimulations executeFullSimulation is given on its own.
MaxTotal == 30

\* ------------------------------------------------------- values and inputs
\* JavaScript null (static lastKnownPrice = null; a feed that failed).
Null == -1

\* What one price feed answers: a price, or null after its catch block.
CoinGeckoAnswers == {Null, 10}
EtherscanAnswers == {Null, 10}
\* Terminal prices a sampler may produce (price * exp(...) is positive).
TerminalPrices == {9, 16}

Counts == -1..MaxCount
Volatilities == {0, 20}
Days == {0, 30}
Configs == [totalSimulations : Counts, volatilityPercentage : Volatilities,
            simulationDays : Days]

RunIds == 1..MaxRuns
ReadIds == 1..MaxReads

\* ------------------------------------------------------------ arithmetic
RECURSIVE SeqSum(_)
SeqSum(s) == IF s = <<>> THEN 0 ELSE Head(s) + SeqSum(Tail(s))

SetMax(S) == CHOOSE x \in S : \A y \in S : y <= x
SetMin(S) == CHOOSE x \in S : \A y \in S : x <= y
Range(s) == {s[k] : k \in 1..Len(s)}

\* floor of the square root of n >= 0, by bisection on lo..hi
RECURSIVE IsqrtIn(_, _, _)
IsqrtIn(n, lo, hi) ==
    IF lo >= hi THEN lo
    ELSE LET mid == (lo + hi + 1) \div 2
         IN  IF mid * mid <= n THEN IsqrtIn(n, mid, hi) ELSE IsqrtIn(n, lo, mid - 1)
Isqrt(n) == IsqrtIn(n, 0, 40000)

\* Math.ceil(a / b) for b > 0; Math.ceil of a quotient in (-1, 0] is (-)0.
CeilDiv(a, b) == IF a <= 0 THEN 0 - ((0 - a) \div b) ELSE (a + b - 1) \div b

\* Math.round of the rational a / b, b > 0: floor(a/b + 1/2).
RoundDiv(a, b) == (2 * a + b) \div (2 * b)

\* ToNumber: null is 0 in arithmetic and in comparisons with numbers.
ToNumber(x) == IF x = Null THEN 0 ELSE x

\* A number the engine computes is a rational [n, d] with d > 0 (terminal
\* prices are integers of the model; means and deviations are not), or NaN:
\* 0/0, which is also what arithmetic makes of undefined.
Rat(a, b) == [n |-> a, d |-> b]
NaN == Rat(0, 0)

\* Math.round(x): floor(x + 1/2); NaN stays NaN.
MathRound(x) == IF x = NaN THEN NaN ELSE Rat(RoundDiv(x.n, x.d), 1)

\* A JavaScript number is a binary floating-point number: the result of every
\* +, -, *, / and Math.sqrt is rounded to the nearest number with a mantissa
\* of so many bits, ties to the even mantissa.  A double has 53; the model
\* keeps Precision.
Precision == 8

\* The powers of two the arithmetic needs.
Pow2 == [k \in 0..30 |-> IF k = 0 THEN 1 ELSE 2 ^ k]

\* a / b (a >= 0, b > 0) rounded to the nearest integer, ties to even.
RoundHalfEven(a, b) ==
    IF 2 * (a % b) > b \/ (2 * (a % b) = b /\ (a \div b) % 2 = 1)
        THEN (a \div b) + 1
        ELSE a \div b

\* a / b > 0 rounded to Precision bits: the quotient is scaled by powers of
\* two (up / down) until its integer part has Precision bits.  (An integer
\* of at most Precision bits is itself.)
RECURSIVE FlPos(_, _, _, _)
FlPos(a, b, up, down) ==
    IF a % b = 0 /\ a < Pow2[Precision] * b THEN Rat((a \div b) * up, down)
    ELSE IF a >= Pow2[Precision] * b THEN FlPos(a, 2 * b, 2 * up, down)
    ELSE IF a < Pow2[Precision - 1] * b THEN FlPos(2 * a, b, up, 2 * down)
    ELSE Rat(RoundHalfEven(a, b) * up, down)
\* The number nearest to a / b, b > 0.
Negated(x) == Rat(0 - x.n, x.d)
Fl(a, b) ==
    IF a = 0 THEN Rat(0, 1)
    ELSE IF a > 0 THEN FlPos(a, b, 1, 1)
    ELSE Negated(FlPos(0 - a, b, 1, 1))

\* x + y, x - y, x / k for an integer k > 0, and x * x, of numbers x and y
\* (their denominators are powers of two).
FlAdd(x, y) ==
    IF x.d >= y.d
        THEN Fl(x.n + y.n * (x.d \div y.d), x.d)
        ELSE Fl(x.n * (y.d \div x.d) + y.n, y.d)
FlSub(x, y) == FlAdd(x, Negated(y))
FlDiv(x, k) == Fl(x.n, x.d * k)
FlSquare(x) == Fl(x.n * x.n, x.d * x.d)

\* The least t with s / 2^t below 2^Precision.
RECURSIVE ShiftFor(_, _)
ShiftFor(s, t) == IF s \div Pow2[t] < Pow2[Precision] THEN t ELSE ShiftFor(s, t + 1)
\* The least k with a * 4^k of at least 2 * Precision + 2 bits.
RECURSIVE ScaleFor(_, _)
ScaleFor(a, k) ==
    IF a * Pow2[2 * k] >= Pow2[2 * Precision + 2] THEN k ELSE ScaleFor(a, k + 1)
\* Whether the power of two d is a power of four, and its root if it is.
RECURSIVE IsPow4(_)
IsPow4(d) == d = 1 \/ (d % 4 = 0 /\ IsPow4(d \div 4))
RECURSIVE RootPow4(_)
RootPow4(d) == IF d = 1 THEN 1 ELSE 2 * RootPow4(d \div 4)
\* Math.sqrt(x), x >= 0.  With the denominator made a power of four, the
\* root of the numerator scaled by 4^k is taken to more bits than are kept:
\* s is its integer part (of Precision + 2 bits when k > 0), and s / 2^t is
\* rounded, a remainder breaking the tie upwards.
SqrtShifted(s, exact, den, t) ==
    IF \/ s % Pow2[t] > Pow2[t - 1]
       \/ (s % Pow2[t] = Pow2[t - 1] /\ (~exact \/ (s \div Pow2[t]) % 2 = 1))
        THEN Fl(((s \div Pow2[t]) + 1) * Pow2[t], den)
        ELSE Fl((s \div Pow2[t]) * Pow2[t], den)
SqrtRounded(s, A, den) == SqrtShifted(s, s * s = A, den, ShiftFor(s, 0))
SqrtScaled(A, den) ==
    SqrtRounded(IF A < Pow2[2 * Precision + 4]
                    THEN IsqrtIn(A, Pow2[Precision + 1], Pow2[Precision + 2] - 1)
                    ELSE Isqrt(A),
                A, den)
SqrtAt(a, b, k) == SqrtScaled(a * Pow2[2 * k], Pow2[k] * b)
SqrtOf(a, b) == SqrtAt(a, RootPow4(b), ScaleFor(a, 0))
FlSqrt(x) ==
    IF x.n = 0 THEN Rat(0, 1)
    ELSE IF IsPow4(x.d) THEN SqrtOf(x.n, x.d)
    ELSE SqrtOf(2 * x.n, 2 * x.d)

\* ------------------------------------------------------------ PriceFetcher
\* (The price of CoinGecko whenever it answered, the other feed's otherwise.)
getCurrentPriceFirstFeed(priceCoinGecko, priceEtherscan) ==
    IF priceCoinGecko # Null
        THEN [threw |-> FALSE, price |-> priceCoinGecko]
    ELSE IF priceEtherscan # Null
        THEN [threw |-> FALSE, price |-> priceEtherscan]
    ELSE [threw |-> TRUE, price |-> Null]
\* getCurrentPrice: the mean of the two feeds, the one that answered, or a
\* throw when both are null.  (The feed values of the model have an even sum.)
getCurrentPrice(priceCoinGecko, priceEtherscan) ==
    IF priceCoinGecko # Null /\ priceEtherscan # Null
        THEN [threw |-> FALSE, price |-> (priceCoinGecko + priceEtherscan) \div 2]
    ELSE IF priceCoinGecko # Null
        THEN [threw |-> FALSE, price |-> priceCoinGecko]
    ELSE IF priceEtherscan # Null
        THEN [threw |-> FALSE, price |-> priceEtherscan]
    ELSE [threw |-> TRUE, price |-> Null]

\* -------------------------------------------------------- MonteCarloEngine
\* gaussianRandom (Box-Muller): a standard normal variate.  The model draws
\* it from two equally likely values of mean 0 and variance 1.
Gaussians == {-1, 1}
\* (A shock that is not scaled by the horizon.)
dailyChangeUnscaled(volatilityPercentage, z, simulationDays) ==
    [numerator |-> volatilityPercentage * z, root |-> 1]
\* dailyChange = Math.exp(decimalVolatility * gaussianRandom() /
\* Math.sqrt(simulationDays)), kept as its exponent numerator / sqrt(root), in
\* hundredths as volatilityPercentage is (decimalVolatility is a hundredth
\* of it).
dailyChange(volatilityPercentage, z, simulationDays) ==
    [numerator |-> volatilityPercentage * z, root |-> simulationDays]
\* `price *= dailyChange` on the distribution of log(price / currentPrice):
\* `returns` maps an exponent numerator to the number of the equally likely
\* shock sequences that lead to it.  pathsInto counts those that reach k by
\* a shock z of zs.
RECURSIVE pathsInto(_, _, _, _, _)
pathsInto(returns, k, zs, volatilityPercentage, simulationDays) ==
    IF zs = {} THEN 0
    ELSE LET z == CHOOSE x \in zs : TRUE
             from == k - dailyChange(volatilityPercentage, z, simulationDays).numerator
         IN  (IF from \in DOMAIN returns THEN returns[from] ELSE 0)
                 + pathsInto(returns, k, zs \ {z}, volatilityPercentage, simulationDays)
shocked(returns, volatilityPercentage, simulationDays) ==
    [k \in DOMAIN returns |->
        pathsInto(returns, k, Gaussians, volatilityPercentage, simulationDays)]

\* validateInputs: TRUE when it throws.  decimalVolatility is
\* volatilityPercentage / 100, so the two have the same sign.
validateInputsThrows(currentPrice, totalSimulations, volatilityPercentage, simulationDays) ==
    \/ ToNumber(currentPrice) <= 0
    \/ totalSimulations <= 0
    \/ volatilityPercentage <= 0
    \/ simulationDays <= 0

\* executeFullSimulation: the number of batches and the size of batch i
\* (i counts from 0, as the loop does).
batchCount(totalSimulations) == CeilDiv(totalSimulations, desiredBatchSize)
\* (A last batch of the full size, whatever is left of the count.)
batchSizeNoRemainder(totalSimulations, i) == desiredBatchSize
batchSize(totalSimulations, i) ==
    IF i = batchCount(totalSimulations) - 1
        THEN totalSimulations - i * desiredBatchSize
        ELSE desiredBatchSize

\* What turbit.run may return for a batch: one terminal price per slot.
BatchResults(size) == [1..size -> TerminalPrices]

\* allPrices.concat(batchPrices), and a merge that puts the batch in front.
concatInFront(allPrices, batchPrices) == batchPrices \o allPrices
concat(allPrices, batchPrices) == allPrices \o batchPrices

\* ------------------------------------------------------------------ Utils
\* calculateChangePercentage: `${change >= 0 ? "+" : ""}${change.toFixed(2)}%`
\* as the sign prefix and the hundredths of a percent, rounded half away from
\* zero as toFixed does; "NaN%" when the change is NaN.
calculateChangePercentage(simulatedPrice, currentPrice) ==
    LET c   == ToNumber(currentPrice)
        num == 10000 * (simulatedPrice.n - simulatedPrice.d * c)
        den == simulatedPrice.d * c
        mag == RoundDiv(IF num >= 0 THEN num ELSE 0 - num, den)
    IN  IF simulatedPrice = NaN \/ c = 0
            THEN [plus |-> FALSE, nan |-> TRUE, hundredths |-> 0]
            ELSE [plus |-> num >= 0, nan |-> FALSE,
                  hundredths |-> IF num >= 0 THEN mag ELSE 0 - mag]

\* prices.reduce((acc, p) => acc + p, 0), from the accumulator acc on.
RECURSIVE sumFrom(_, _)
sumFrom(acc, prices) ==
    IF prices = <<>> THEN acc
    ELSE sumFrom(FlAdd(acc, Rat(Head(prices), 1)), Tail(prices))
\* prices.reduce((acc, p) => acc + Math.pow(p - mean, 2), 0), from acc on.
RECURSIVE squaresFrom(_, _, _)
squaresFrom(acc, prices, about) ==
    IF prices = <<>> THEN acc
    ELSE squaresFrom(FlAdd(acc, FlSquare(FlSub(Rat(Head(prices), 1), about))),
                     Tail(prices), about)

\* calculateTargetPrice: its mean, its variance (the population's: divided by
\* the length), its stdDev, and mean + stdDev; NaN (0 / 0) for an empty array.
mean(prices) == FlDiv(sumFrom(Rat(0, 1), prices), Len(prices))
\* (The squares taken about zero, not about the mean.)
varianceAboutZero(prices) ==
    FlDiv(squaresFrom(Rat(0, 1), prices, Rat(0, 1)), Len(prices))
variance(prices) ==
    FlDiv(squaresFrom(Rat(0, 1), prices, mean(prices)), Len(prices))
stdDev(prices) == FlSqrt(variance(prices))
calculateTargetPrice(prices) ==
    IF prices = <<>> THEN NaN ELSE FlAdd(mean(prices), stdDev(prices))

\* (The next index taken from the number of raw files.)
countNextFileIndex(existingIndices) == Cardinality(existingIndices) + 1
\* (The highest index there is, not the one after it.)
lastFileIndexAgain(existingIndices) ==
    IF existingIndices # {} THEN SetMax(existingIndices) ELSE 1
\* determineNextFileIndex over the indices of the raw files that exist.
determineNextFileIndex(existingIndices) ==
    IF existingIndices # {} THEN SetMax(existingIndices) + 1 ELSE 1

\* getLastFileIndex (used by init only).
getLastFileIndex(existingIndices) ==
    IF existingIndices = {} THEN 0 ELSE SetMax(existingIndices) + 1

\* ------------------------------------------------- generateSimulations, pure
\* allPrices.reduce(min / max, allPrices[0]): undefined for an empty array.
lowestPrice(allPrices) ==
    IF allPrices = <<>> THEN NaN ELSE Rat(SetMin(Range(allPrices)), 1)
highestPrice(allPrices) ==
    IF allPrices = <<>> THEN NaN ELSE Rat(SetMax(Range(allPrices)), 1)
\* sum / length: 0/0 for an empty array.
averagePrice(allPrices) ==
    IF allPrices = <<>> THEN NaN
    ELSE FlDiv(sumFrom(Rat(0, 1), allPrices), Len(allPrices))

\* The rows one appendCSV call adds to the raw file: chunk i of allPrices,
\* numbered by the forEach index within the slice.
slicedPrices(allPrices, i) ==
    SubSeq(allPrices, i * desiredBatchSize + 1,
           IF (i + 1) * desiredBatchSize < Len(allPrices)
               THEN (i + 1) * desiredBatchSize ELSE Len(allPrices))
csvContent(allPrices, i, currentPrice) ==
    LET slice == slicedPrices(allPrices, i)
    IN  [index \in 1..Len(slice) |->
            [kind |-> "row",
             simulation_id |-> index,
             price |-> MathRound(Rat(slice[index], 1)),
             percentage_change |->
                 calculateChangePercentage(Rat(slice[index], 1), currentPrice)]]
csvHeader == [kind |-> "header"]

\* The line generateSimulations appends to core.csv (timestamp and
\* processing_time are wall-clock readings and are left out).
logEntry(counter, currentPrice, allPrices, totalSimulations, simulated, index) ==
    [kind |-> "row",
     simulation_id |-> counter,
     current_price |-> ToNumber(currentPrice),
     highest_price |-> MathRound(highestPrice(allPrices)),
     target_price |-> MathRound(calculateTargetPrice(allPrices)),
     average_price |-> MathRound(averagePrice(allPrices)),
     lowest_price |-> MathRound(lowestPrice(allPrices)),
     simulated_data |-> totalSimulations,
     total_simulated |-> simulated,
     data_source |-> index]
logHeader == [kind |-> "header"]

\* getUpdatedOverview
getUpdatedOverview(currentPrice, highest, target, average, lowest) ==
    [current |-> [price |-> ToNumber(currentPrice)],
     highest |-> [price |-> MathRound(highest),
                  changePercentage |-> calculateChangePercentage(highest, currentPrice)],
     target  |-> [price |-> MathRound(target),
                  changePercentage |-> calculateChangePercentage(target, currentPrice)],
     average |-> [price |-> MathRound(average),
                  changePercentage |-> calculateChangePercentage(average, currentPrice)],
     lowest  |-> [price |-> MathRound(lowest),
                  changePercentage |-> calculateChangePercentage(lowest, currentPrice)]]

\* ------------------------------------------------------------------ state
VARIABLES
    config,            \* Config.simulationConfig of this process
    lastKnownPrice,    \* static lastKnownPrice
    connectionLost,    \* static connectionLost
    fileIndex,         \* static fileIndex
    simulatedData,     \* static simulatedData
    simulationCounter, \* static simulationCounter
    simulationStatus,  \* static simulationStatus
    latestOutput,      \* static latestOutput (the overview cache)
    coreFile,          \* private/core.csv: whether it exists, and its lines
    dataDir,           \* private/data: raw file index -> its lines
    runs,              \* the calls of getSimulationData: position and locals
    started,           \* how many calls of getSimulationData were made
    startupFired,      \* the setTimeout callback of runServer has run
    reads,             \* the GET /api/overview requests and their answers
    asked,             \* how many overview requests arrived
    queries,           \* the GET /api/simulations requests and their answers
    restarts,          \* how often the process was stopped and started again
    partition,         \* executeFullSimulation alone: the batches it dispatches
    exited,            \* the process has ended on an unhandled rejection
    statistics,        \* the statistics of one price array, computed alone
    fetch,             \* PriceFetcher.getCurrentPrice alone: its two feeds
    sampler            \* the sampler of simulatePrices alone: one price

vars == <<config, lastKnownPrice, connectionLost, fileIndex, simulatedData,
          simulationCounter, simulationStatus, latestOutput, coreFile, dataDir,
          runs, started, startupFired, reads, asked, queries, restarts,
          partition, exited, statistics, fetch, sampler>>

statics == <<lastKnownPrice, connectionLost, fileIndex, simulatedData,
             simulationCounter, simulationStatus>>
files == <<coreFile, dataDir>>
\* What the runs and the overview requests leave alone.
aside == <<queries, restarts, partition, exited, statistics, fetch, sampler>>

NoOutput == [absent |-> TRUE]
NoFiles == [k \in {} |-> <<>>]

\* A call that has not been made.  pc, currentPrice, i, allPrices and output
\* are the call's position and locals.  The rest is history kept for the
\* properties: who called, why the call threw, whether its price request
\* failed, the raw file it chose, `pre`, the state when it was made, and
\* `batches`, what turbit.run returned for each batch, in dispatch order.
NoPre ==
    [rows |-> 0, raw |-> {}, cache |-> NoOutput, inFlight |-> {}, status |-> "OK",
     lastKnownPrice |-> Null, counter |-> 0, simulated |-> 0]
IdleRun ==
    [pc |-> "idle", trigger |-> "none", reader |-> 0, currentPrice |-> Null,
     i |-> 0, allPrices |-> <<>>, output |-> NoOutput, error |-> "none",
     priceFailed |-> FALSE, file |-> 0, pre |-> NoPre, batches |-> <<>>]
\* An overview request that has not arrived.  `run` is the call it made (0:
\* none) and `during` the calls that were in flight when it arrived.
NoRead == [state |-> "none", body |-> NoOutput, run |-> 0, during |-> {}]
NoPartition == [totalSimulations |-> 0, i |-> 0, sizes |-> <<>>]
NoStatistics == [prices |-> <<>>, computed |-> FALSE]
NoFetch == [pc |-> "idle", priceCoinGecko |-> Null, priceEtherscan |-> Null,
            threw |-> FALSE, price |-> Null]
NoSampler == [pc |-> "idle", currentPrice |-> Null, volatilityPercentage |-> 0,
              simulationDays |-> 0, i |-> 0, root |-> 1, returns |-> <<>>]

\* The data lines of a csv file.
DataRows(lines) == SelectSeq(lines, LAMBDA l : l.kind = "row")
LogRows == DataRows(coreFile.lines)
\* The calls of getSimulationData that have not returned or thrown yet.
InFlight == {r \in RunIds : runs[r].pc \notin {"idle", "done", "failed", "killed"}}

\* synthBTC.init on an empty private/data, then ServerCore.init.
Init ==
    /\ config \in Configs
    /\ lastKnownPrice = Null
    /\ connectionLost = FALSE
    /\ fileIndex = getLastFileIndex({})
    /\ simulatedData = 0
    /\ simulationCounter = 0
    /\ simulationStatus = "OK"
    /\ latestOutput = NoOutput
    /\ coreFile = [exists |-> FALSE, lines |-> <<>>]
    /\ dataDir = NoFiles
    /\ runs = [r \in RunIds |-> IdleRun]
    /\ started = 0
    /\ startupFired = FALSE
    /\ reads = [k \in ReadIds |-> NoRead]
    /\ asked = 0
    /\ queries = <<>>
    /\ restarts = 0
    /\ partition = NoPartition
    /\ exited = FALSE
    /\ statistics = NoStatistics
    /\ fetch = NoFetch
    /\ sampler = NoSampler

\* ------------------------------------------------ starting a run (855-858)
\* getSimulationData -> generateSimulations up to its first await: the status
\* becomes PROCESSING and the price request is sent.  Nothing checks whether
\* another run is in flight.
BeginRun(r, trigger, reader) ==
    /\ simulationStatus' = "PROCESSING"
    /\ runs' = [runs EXCEPT ![r] =
            [IdleRun EXCEPT !.pc = "price", !.trigger = trigger, !.reader = reader,
                            !.pre = [rows |-> Len(LogRows),
                                     raw |-> DOMAIN dataDir,
                                     cache |-> latestOutput,
                                     inFlight |-> InFlight,
                                     status |-> simulationStatus,
                                     lastKnownPrice |-> lastKnownPrice,
                                     counter |-> simulationCounter,
                                     simulated |-> simulatedData]]]
    /\ started' = started + 1

\* setInterval callback of ServerCore.init.
TimerTick ==
    /\ ~exited
    /\ started < MaxRuns
    /\ BeginRun(started + 1, "timer", 0)
    /\ UNCHANGED <<aside, config, lastKnownPrice, connectionLost, fileIndex, simulatedData,
                   simulationCounter, latestOutput, files, startupFired, reads, asked>>

\* setTimeout callback of runServer: `this` is not synthBTC there, so
\* this.latestOutput is undefined and the run is always started.
StartupRun ==
    /\ ~exited
    /\ ~startupFired
    /\ started < MaxRuns
    /\ startupFired' = TRUE
    /\ BeginRun(started + 1, "startup", 0)
    /\ UNCHANGED <<aside, config, lastKnownPrice, connectionLost, fileIndex, simulatedData,
                   simulationCounter, latestOutput, files, reads, asked>>

\* What res.json sends for the cache entry once getOverview has stamped it.
Stamped(output) == [output EXCEPT !.status = simulationStatus]

\* (getOverview answering at once with what the cache holds, filled or not.)
OverviewMissAnswersEmpty ==
    /\ ~exited
    /\ asked < MaxReads
    /\ latestOutput = NoOutput
    /\ asked' = asked + 1
    /\ reads' = [reads EXCEPT ![asked + 1] =
                    [state |-> "answered", body |-> latestOutput, run |-> 0,
                     during |-> InFlight]]
    /\ UNCHANGED <<aside, config, statics, latestOutput, files, runs, started,
                   startupFired>>

\* getOverview with an empty cache: the handler starts a run of its own and
\* waits for it.
OverviewMiss ==
    /\ ~exited
    /\ asked < MaxReads
    /\ started < MaxRuns
    /\ latestOutput = NoOutput
    /\ asked' = asked + 1
    /\ reads' = [reads EXCEPT ![asked + 1] =
                    [state |-> "waiting", body |-> NoOutput, run |-> started + 1,
                     during |-> InFlight]]
    /\ BeginRun(started + 1, "read", asked + 1)
    /\ UNCHANGED <<aside, config, lastKnownPrice, connectionLost, fileIndex, simulatedData,
                   simulationCounter, latestOutput, files, startupFired>>

\* (getOverview holding the request back while a run is in flight.)
OverviewHitWaits ==
    /\ ~exited
    /\ asked < MaxReads
    /\ latestOutput # NoOutput
    /\ asked' = asked + 1
    /\ latestOutput' = Stamped(latestOutput)
    /\ reads' = [reads EXCEPT ![asked + 1] =
                    [state |-> IF InFlight = {} THEN "answered" ELSE "waiting",
                     body |-> IF InFlight = {} THEN Stamped(latestOutput) ELSE NoOutput,
                     run |-> 0, during |-> InFlight]]
    /\ UNCHANGED <<aside, config, statics, files, runs, started, startupFired>>

\* getOverview with a cache entry: it writes the current status into the
\* cached object and answers with it at once.
OverviewHit ==
    /\ ~exited
    /\ asked < MaxReads
    /\ latestOutput # NoOutput
    /\ asked' = asked + 1
    /\ latestOutput' = Stamped(latestOutput)
    /\ reads' = [reads EXCEPT ![asked + 1] =
                    [state |-> "answered", body |-> Stamped(latestOutput), run |-> 0,
                     during |-> InFlight]]
    /\ UNCHANGED <<aside, config, statics, files, runs, started, startupFired>>

\* A run that threw: its locals are gone and the rejection reaches the caller.  getOverview answers
\* 500 with the message; the timer and startup callbacks have no handler.
\* (Of a run whose batch was rejected, i is kept as history: the number of
\* batches that had come in.)
Rejected(r, why) ==
    /\ runs' = [runs EXCEPT ![r].pc = "failed", ![r].error = why,
                            ![r].i = IF why = "worker" THEN runs[r].i ELSE 0,
                            ![r].allPrices = <<>>,
                            ![r].batches = <<>>,
                            ![r].file = IF why = "persistence"
                                            THEN determineNextFileIndex(DOMAIN dataDir)
                                            ELSE 0]
    /\ reads' = IF runs[r].trigger = "read"
                    THEN [reads EXCEPT ![runs[r].reader].state = "error"]
                    ELSE reads

\* ------------------------------------------------- currentPriceBTC (804-814)
\* (A failed fetch that forgets the price fetched before.)
PriceArrivesForgetsPrice(r) ==
    /\ runs[r].pc = "price"
    /\ \E cg \in CoinGeckoAnswers, es \in EtherscanAnswers :
          LET got == getCurrentPrice(cg, es)
              now == IF got.threw THEN Null ELSE got.price
          IN  /\ lastKnownPrice' = now
              /\ connectionLost' = got.threw
              /\ runs' = [runs EXCEPT ![r].pc = "exec", ![r].currentPrice = now,
                                      ![r].priceFailed = got.threw]
    /\ UNCHANGED <<aside, config, fileIndex, simulatedData, simulationCounter,
                   simulationStatus, latestOutput, files, started, startupFired,
                   reads, asked>>
\* The feeds have answered.  A throw of getCurrentPrice is caught: the run
\* goes on with the last known price, which is null if there never was one.
PriceArrives(r) ==
    /\ runs[r].pc = "price"
    /\ \E cg \in CoinGeckoAnswers, es \in EtherscanAnswers :
          LET got == getCurrentPrice(cg, es)
              now == IF got.threw THEN lastKnownPrice ELSE got.price
          IN  /\ lastKnownPrice' = now
              /\ connectionLost' = got.threw
              /\ runs' = [runs EXCEPT ![r].pc = "exec", ![r].currentPrice = now,
                                      ![r].priceFailed = got.threw]
    /\ UNCHANGED <<aside, config, fileIndex, simulatedData, simulationCounter,
                   simulationStatus, latestOutput, files, started, startupFired,
                   reads, asked>>

\* -------------------------------------- executeFullSimulation, one batch
\* (The counters advanced per batch, so that a rejected batch has counted.)
ExecuteBatchCountsFirst(r) ==
    LET run  == runs[r]
        size == batchSize(config.totalSimulations, run.i)
    IN  /\ run.pc = "exec"
        /\ run.i < batchCount(config.totalSimulations)
        /\ IF validateInputsThrows(run.currentPrice, size,
                                   config.volatilityPercentage, config.simulationDays)
              THEN /\ Rejected(r, "validation")
                   /\ UNCHANGED <<simulationCounter, simulatedData>>
              ELSE \/ \E prices \in BatchResults(size) :
                        /\ runs' = [runs EXCEPT ![r].i = run.i + 1,
                                                ![r].allPrices = concat(run.allPrices, prices),
                                                ![r].batches = Append(run.batches, prices)]
                        /\ reads' = reads
                        /\ UNCHANGED <<simulationCounter, simulatedData>>
                   \/ /\ Rejected(r, "worker")
                      /\ simulationCounter' = simulationCounter + 1
                      /\ simulatedData' = simulatedData + size
        /\ UNCHANGED <<aside, config, lastKnownPrice, connectionLost, fileIndex,
                       simulationStatus, latestOutput, files, started, startupFired,
                       asked>>

\* simulatePrices validates and then awaits turbit.run; the batch either
\* returns its prices, which are appended to allPrices, or rejects.
ExecuteBatch(r) ==
    LET run  == runs[r]
        size == batchSize(config.totalSimulations, run.i)
    IN  /\ run.pc = "exec"
        /\ run.i < batchCount(config.totalSimulations)
        /\ IF validateInputsThrows(run.currentPrice, size,
                                   config.volatilityPercentage, config.simulationDays)
              THEN Rejected(r, "validation")
              ELSE \/ \E prices \in BatchResults(size) :
                        /\ runs' = [runs EXCEPT ![r].i = run.i + 1,
                                                ![r].allPrices = concat(run.allPrices, prices),
                                                ![r].batches = Append(run.batches, prices)]
                        /\ reads' = reads
                   \/ Rejected(r, "worker")
        /\ UNCHANGED <<aside, config, statics, latestOutput, files, started, startupFired,
                       asked>>

\* ------------------------------------- generateSimulations, 865-907 (sync)
\* The chunks the raw-file loop appends: i < Math.ceil(totalSimulations / 5000).
chunkCount(totalSimulations) ==
    IF batchCount(totalSimulations) > 0 THEN batchCount(totalSimulations) ELSE 0

\* The fs.writeFileSync calls of one run, in order: 1 the raw header
\* (writeCSV), 2 its empty data, 3.. one per chunk (appendCSV), then for
\* core.csv the header and the entry (writeCSV) if the file does not exist,
\* or the entry alone (appendCSV) if it does.
writeCount(totalSimulations, coreExists) ==
    2 + chunkCount(totalSimulations) + (IF coreExists THEN 1 ELSE 2)

\* failAt = 0: no call throws; failAt = k: the k-th call throws and writes
\* nothing, and the calls before it are done.
WriteDone(k, failAt) == failAt = 0 \/ k < failAt

RECURSIVE rawRows(_, _, _, _, _)
rawRows(allPrices, currentPrice, totalSimulations, i, failAt) ==
    IF i >= chunkCount(totalSimulations) \/ ~WriteDone(3 + i, failAt) THEN <<>>
    ELSE csvContent(allPrices, i, currentPrice)
             \o rawRows(allPrices, currentPrice, totalSimulations, i + 1, failAt)

\* private/data after the raw-file writes of a run.
dataDirAfter(dir, index, allPrices, currentPrice, totalSimulations, failAt) ==
    IF ~WriteDone(1, failAt) THEN dir
    ELSE [k \in DOMAIN dir \cup {index} |->
            IF k = index
                THEN <<csvHeader>>
                         \o rawRows(allPrices, currentPrice, totalSimulations, 0, failAt)
                ELSE dir[k]]

\* (core.csv written anew by every run: writeCSV whether or not it exists.)
coreFileRewritten(core, entry, chunks, failAt) ==
    IF ~WriteDone(3 + chunks, failAt) THEN core
    ELSE IF ~WriteDone(4 + chunks, failAt)
        THEN [exists |-> TRUE, lines |-> <<logHeader>>]
        ELSE [exists |-> TRUE, lines |-> <<logHeader, entry>>]

\* core.csv after the log write of a run.
coreFileAfter(core, entry, chunks, failAt) ==
    IF core.exists
        THEN IF WriteDone(3 + chunks, failAt)
                 THEN [core EXCEPT !.lines = core.lines \o <<entry>>]
                 ELSE core
        ELSE IF ~WriteDone(3 + chunks, failAt) THEN core
             ELSE IF ~WriteDone(4 + chunks, failAt)
                 THEN [exists |-> TRUE, lines |-> <<logHeader>>]
                 ELSE [exists |-> TRUE, lines |-> <<logHeader, entry>>]

\* All batches are in: statistics, counters, file index, the raw file, the
\* log entry and the status, with no await in between.  A writeFileSync that
\* throws ends the run there, after the counters were already advanced.
Persist(r) ==
    LET run    == runs[r]
        total  == config.totalSimulations
        index  == determineNextFileIndex(DOMAIN dataDir)
        chunks == chunkCount(total)
        entry  == logEntry(simulationCounter + 1, run.currentPrice, run.allPrices,
                           total, simulatedData + total, index)
    IN  /\ run.pc = "exec"
        /\ run.i >= batchCount(total)
        /\ simulatedData' = simulatedData + total
        /\ simulationCounter' = simulationCounter + 1
        /\ fileIndex' = index
        /\ \E failAt \in 0..writeCount(total, coreFile.exists) :
              /\ dataDir' = dataDirAfter(dataDir, index, run.allPrices,
                                         run.currentPrice, total, failAt)
              /\ coreFile' = coreFileAfter(coreFile, entry, chunks, failAt)
              /\ IF failAt = 0
                    THEN /\ simulationStatus' = "OK"
                         /\ runs' = [runs EXCEPT ![r].pc = "overview",
                                ![r].file = index,
                                ![r].output =
                                    [status |-> "OK",
                                     overview |-> getUpdatedOverview(
                                         run.currentPrice,
                                         highestPrice(run.allPrices),
                                         calculateTargetPrice(run.allPrices),
                                         averagePrice(run.allPrices),
                                         lowestPrice(run.allPrices)),
                                     run |-> r]]
                         /\ reads' = reads
                    ELSE /\ simulationStatus' = simulationStatus
                         /\ Rejected(r, "persistence")
        /\ UNCHANGED <<aside, config, lastKnownPrice, connectionLost, latestOutput, started,
                       startupFired, asked>>

\* generateSimulations after `await this.getUpdatedOverview(...)`: the details
\* are read from the statics as they are now, and the object is returned.
BuildResult(r) ==
    /\ runs[r].pc = "overview"
    /\ runs' = [runs EXCEPT ![r].pc = "output",
            ![r].output =
                [status |-> runs[r].output.status,
                 overview |-> runs[r].output.overview,
                 details |-> [simulatedData |-> simulatedData,
                              totalSimulations |-> simulationCounter,
                              totalSimulationDays |-> config.simulationDays,
                              dataSource |-> fileIndex],
                 run |-> r]]
    /\ UNCHANGED <<aside, config, statics, latestOutput, files, started, startupFired,
                   reads, asked>>

\* (The cache filled as soon as the prices are in, before they are stored.)
SetLatestBeforePersist(r) ==
    /\ \/ /\ runs[r].pc = "output"
          /\ latestOutput' = runs[r].output
          /\ runs' = [runs EXCEPT ![r].pc = "caller"]
       \/ /\ runs[r].pc = "exec"
          /\ runs[r].i >= batchCount(config.totalSimulations)
          /\ latestOutput = NoOutput
          /\ latestOutput' =
                 [status |-> simulationStatus,
                  overview |-> getUpdatedOverview(
                      runs[r].currentPrice,
                      highestPrice(runs[r].allPrices),
                      calculateTargetPrice(runs[r].allPrices),
                      averagePrice(runs[r].allPrices),
                      lowestPrice(runs[r].allPrices)),
                  run |-> r]
          /\ runs' = runs
    /\ UNCHANGED <<aside, config, statics, files, started, startupFired, reads, asked>>

\* (The cache updated field by field, the highest value left for later.)
SetLatestInParts(r) ==
    /\ runs[r].pc = "output"
    /\ latestOutput' =
           IF latestOutput = NoOutput THEN runs[r].output
           ELSE [runs[r].output EXCEPT
                    !.overview.highest = latestOutput.overview.highest]
    /\ runs' = [runs EXCEPT ![r].pc = "caller"]
    /\ UNCHANGED <<aside, config, statics, files, started, startupFired, reads, asked>>

\* getSimulationData after its await (927-929): the cache is overwritten.
SetLatest(r) ==
    /\ runs[r].pc = "output"
    /\ latestOutput' = runs[r].output
    /\ runs' = [runs EXCEPT ![r].pc = "caller"]
    /\ UNCHANGED <<aside, config, statics, files, started, startupFired, reads, asked>>

\* The caller after its await; the locals of the call are gone after it.  getOverview stores the output of its own run
\* in the cache again, stamps it and answers; the timer and startup callbacks
\* store it in an object nobody reads.
Deliver(r) ==
    /\ runs[r].pc = "caller"
    /\ runs' = [runs EXCEPT ![r].pc = "done", ![r].i = 0, ![r].allPrices = <<>>,
                            ![r].batches = <<>>, ![r].output = NoOutput]
    /\ IF runs[r].trigger = "read"
          THEN /\ latestOutput' = Stamped(runs[r].output)
               /\ reads' = [reads EXCEPT ![runs[r].reader].state = "answered",
                                         ![runs[r].reader].body = Stamped(runs[r].output)]
          ELSE UNCHANGED <<latestOutput, reads>>
    /\ UNCHANGED <<aside, config, statics, files, started, startupFired, asked>>

Next ==
    \/ TimerTick
    \/ StartupRun
    \/ OverviewMiss
    \/ OverviewHit
    \/ \E r \in RunIds : PriceArrives(r)
    \/ \E r \in RunIds : ExecuteBatch(r)
    \/ \E r \in RunIds : Persist(r)
    \/ \E r \in RunIds : BuildResult(r)
    \/ \E r \in RunIds : SetLatest(r)
    \/ \E r \in RunIds : Deliver(r)

Spec == Init /\ [][Next]_vars

\* ------------------------------------------- the process started again
\* CSVHandler.getCSVFiles: the raw files of private/data.
getCSVFiles(dir) == DOMAIN dir

\* CSVHandler.calculateSimulatedData: per raw file, data.split("\n") gives one
\* piece more than the file has lines (each line ends with "\n"), slice(1)
\* drops the header and 1 is subtracted for the empty last piece.
RECURSIVE calculateSimulatedData(_, _)
calculateSimulatedData(dir, csvFiles) ==
    IF csvFiles = {} THEN 0
    ELSE LET file   == CHOOSE k \in csvFiles : TRUE
             pieces == Len(dir[file]) + 1
         IN  ((pieces - 1) - 1) + calculateSimulatedData(dir, csvFiles \ {file})

\* The process ends (its calls in flight and its pending requests with it)
\* and synthBTC.init runs again on the files it left: the statics get their
\* class-field values and the counters are read from private/data.
Restart ==
    /\ restarts < MaxRestarts
    /\ restarts' = restarts + 1
    /\ lastKnownPrice' = Null
    /\ connectionLost' = FALSE
    /\ fileIndex' = getLastFileIndex(DOMAIN dataDir)
    /\ simulatedData' = calculateSimulatedData(dataDir, getCSVFiles(dataDir))
    /\ simulationCounter' = Cardinality(getCSVFiles(dataDir))
    /\ simulationStatus' = "OK"
    /\ latestOutput' = NoOutput
    /\ startupFired' = FALSE
    /\ runs' = [r \in RunIds |->
                  IF r \in InFlight
                      THEN [runs[r] EXCEPT !.pc = "killed", !.currentPrice = Null,
                                           !.i = 0, !.allPrices = <<>>,
                                           !.batches = <<>>, !.output = NoOutput]
                      ELSE runs[r]]
    /\ reads' = [k \in ReadIds |->
                  IF reads[k].state = "waiting"
                      THEN [reads[k] EXCEPT !.state = "dropped"]
                      ELSE reads[k]]
    /\ UNCHANGED <<config, files, started, asked, queries, partition, exited,
                   statistics, fetch, sampler>>

\* ------------------------------------------------ the run history (APICore)
\* (readCoreSimulations without lines.slice(1): the header as a record.)
readCoreSimulationsKeepsHeader(core) ==
    IF ~core.exists
        THEN [threw |-> TRUE, simulations |-> <<>>]
        ELSE [threw |-> FALSE, simulations |-> core.lines]

\* CSVHandler.readCoreSimulations: throws without core.csv; otherwise the
\* first line gives the keys and every further line one record.
readCoreSimulations(core) ==
    IF ~core.exists
        THEN [threw |-> TRUE, simulations |-> <<>>]
        ELSE [threw |-> FALSE, simulations |-> Tail(core.lines)]

\* One element of req.params.ids.split(","): an optional minus sign, the
\* decimal digits it starts with (Null: none) and whether more text follows.
Token(minus, digits, more) == [minus |-> minus, digits |-> digits, more |-> more]
IdTokens ==
    {Token(FALSE, 1, FALSE), Token(FALSE, 2, FALSE), Token(FALSE, 0, FALSE),
     Token(TRUE, 1, FALSE), Token(FALSE, Null, TRUE), Token(FALSE, 2, TRUE)}
IdLists == UNION {[1..n -> IdTokens] : n \in 1..MaxIds}

\* parseInt(id, 10): the number the leading digits spell, the rest ignored;
\* NaN when the text does not start with digits.
parseInt(token) ==
    IF token.digits = Null THEN NaN
    ELSE Rat(IF token.minus THEN 0 - token.digits ELSE token.digits, 1)

\* The entry getSimulationsByIds answers for one parsed id (41-47); a
\* comparison with NaN is false.
NotAvailable(id) == [kind |-> "error", id |-> id]
resultFor(id, simulations) ==
    IF id # NaN /\ id.n > 0 /\ id.n <= Len(simulations)
        THEN simulations[id.n]
        ELSE NotAvailable(id)

\* A history request that was answered.  `log` is core.csv as the handler
\* found it.
Query(kind, ids, read, body) ==
    [kind |-> kind, ids |-> ids, log |-> coreFile,
     state |-> IF read.threw THEN "error" ELSE "answered",
     body |-> IF read.threw THEN <<>> ELSE body]

\* (A handler that hands each record out once: it leaves the header alone
\* in core.csv.)
getSimulationsDrains ==
    LET simulations == readCoreSimulations(coreFile)
    IN  /\ queries' = IF queries # <<>> /\ queries[Len(queries)].kind = "list"
                          THEN <<queries[Len(queries)],
                                 [kind |-> "list", ids |-> <<>>, log |-> coreFile,
                                  state |-> IF simulations.threw THEN "error"
                                                                 ELSE "answered",
                                  body |-> simulations.simulations]>>
                          ELSE <<[kind |-> "list", ids |-> <<>>, log |-> coreFile,
                                  state |-> IF simulations.threw THEN "error"
                                                                 ELSE "answered",
                                  body |-> simulations.simulations]>>
        /\ coreFile' = IF coreFile.exists
                           THEN [coreFile EXCEPT !.lines = <<logHeader>>]
                           ELSE coreFile
        /\ UNCHANGED <<config, statics, latestOutput, dataDir, runs, started,
                       startupFired, reads, asked, restarts, partition, exited,
                   statistics, fetch, sampler>>

\* GET /api/simulations: the records, or 500 when readCoreSimulations threw.
\* `queries` keeps the last answer and, when two of these requests follow
\* each other, the one before it.
getSimulations ==
    LET simulations == readCoreSimulations(coreFile)
        answer == Query("list", <<>>, simulations, simulations.simulations)
    IN  /\ queries' = IF queries # <<>> /\ queries[Len(queries)].kind = "list"
                          THEN <<queries[Len(queries)], answer>>
                          ELSE <<answer>>
        /\ UNCHANGED <<config, statics, latestOutput, files, runs, started,
                       startupFired, reads, asked, restarts, partition, exited,
                   statistics, fetch, sampler>>

\* GET /api/simulations/:ids.  The model follows one such request.
getSimulationsByIds ==
    /\ queries = <<>>
    /\ \E ids \in IdLists :
          LET simulations == readCoreSimulations(coreFile)
              results == [k \in 1..Len(ids) |->
                             resultFor(parseInt(ids[k]), simulations.simulations)]
          IN  queries' = <<Query("byIds", ids, simulations, results)>>
    /\ UNCHANGED <<config, statics, latestOutput, files, runs, started,
                   startupFired, reads, asked, restarts, partition, exited,
                   statistics, fetch, sampler>>

\* The configurations the store is followed under: one of them is rejected
\* by nothing and writes a log row without prices (totalSimulations 0).
StoreConfigs ==
    {c \in Configs : /\ c.totalSimulations \in {0, 1}
                     /\ c.volatilityPercentage > 0
                     /\ c.simulationDays > 0}
StoreInit == Init /\ config \in StoreConfigs

\* The store over the lives of the process, with the run history read at any
\* moment.  The runs are the timer's and the startup callback's: an overview
\* request reaches the store only by making the same call.
StoreNext ==
    \/ TimerTick
    \/ StartupRun
    \/ \E r \in RunIds : PriceArrives(r)
    \/ \E r \in RunIds : ExecuteBatch(r)
    \/ \E r \in RunIds : Persist(r)
    \/ \E r \in RunIds : BuildResult(r)
    \/ \E r \in RunIds : SetLatest(r)
    \/ \E r \in RunIds : Deliver(r)
    \/ Restart
    \/ getSimulations

StoreSpec == StoreInit /\ [][StoreNext]_vars

\* The same, with records looked up by id.
LookupNext ==
    \/ TimerTick
    \/ \E r \in RunIds : PriceArrives(r)
    \/ \E r \in RunIds : ExecuteBatch(r)
    \/ \E r \in RunIds : Persist(r)
    \/ \E r \in RunIds : BuildResult(r)
    \/ \E r \in RunIds : SetLatest(r)
    \/ \E r \in RunIds : Deliver(r)
    \/ Restart
    \/ getSimulationsByIds

LookupSpec == StoreInit /\ [][LookupNext]_vars

\* ------------------------------------- a rejection that nobody handles
\* The timer and startup callbacks await getSimulationData with no try/catch
\* (serverCore.js 42-44, 93-95) and nothing listens for unhandledRejection:
\* when such a call throws, the promise of the callback is rejected with no
\* handler.  What the runtime then does is its default: it ends the process
\* (Node.js 15 and later) or prints a warning and goes on (earlier releases);
\* the step below is the first, not taking it the second.  With the process
\* its calls in flight and its pending requests end.
UnhandledRejection(r) ==
    /\ ~exited
    /\ runs[r].pc = "failed"
    /\ runs[r].trigger \in {"timer", "startup"}
    /\ exited' = TRUE
    /\ runs' = [q \in RunIds |->
                  IF q \in InFlight
                      THEN [runs[q] EXCEPT !.pc = "killed", !.currentPrice = Null,
                                           !.i = 0, !.allPrices = <<>>,
                                           !.batches = <<>>, !.output = NoOutput]
                      ELSE runs[q]]
    /\ reads' = [k \in ReadIds |->
                  IF reads[k].state = "waiting"
                      THEN [reads[k] EXCEPT !.state = "dropped"]
                      ELSE reads[k]]
    /\ UNCHANGED <<config, statics, latestOutput, files, started, startupFired,
                   asked, queries, restarts, partition, statistics, fetch, sampler>>

\* The process with its timer and its overview requests, as long as it
\* lives: an ended process starts no run and takes no request, and its calls
\* in flight are gone.
ServingInit == Init /\ config \in StoreConfigs
ServingNext ==
    \/ TimerTick
    \/ OverviewMiss
    \/ OverviewHit
    \/ \E r \in RunIds : PriceArrives(r)
    \/ \E r \in RunIds : ExecuteBatch(r)
    \/ \E r \in RunIds : Persist(r)
    \/ \E r \in RunIds : BuildResult(r)
    \/ \E r \in RunIds : SetLatest(r)
    \/ \E r \in RunIds : Deliver(r)
    \/ \E r \in RunIds : UnhandledRejection(r)
ServingSpec == ServingInit /\ [][ServingNext]_vars

\* ------------------------------------------ raw files deleted by hand
\* The raw files earlier lives of the process left: source_simulation_1.csv
\* to source_simulation_n.csv, each with the rows of a run of the configured
\* count.
MaxStored == 2
StoredFile(total) ==
    <<csvHeader>> \o rawRows([j \in 1..total |-> 9], 10, total, 0, 0)
StoredFiles(n, total) == [k \in 1..n |-> StoredFile(total)]

\* synthBTC.init on such a directory; core.csv is not there.
DeletionInit ==
    /\ config \in StoreConfigs
    /\ \E n \in 0..MaxStored : dataDir = StoredFiles(n, config.totalSimulations)
    /\ lastKnownPrice = Null
    /\ connectionLost = FALSE
    /\ fileIndex = getLastFileIndex(DOMAIN dataDir)
    /\ simulatedData = calculateSimulatedData(dataDir, getCSVFiles(dataDir))
    /\ simulationCounter = Cardinality(getCSVFiles(dataDir))
    /\ simulationStatus = "OK"
    /\ latestOutput = NoOutput
    /\ coreFile = [exists |-> FALSE, lines |-> <<>>]
    /\ runs = [r \in RunIds |-> IdleRun]
    /\ started = 0
    /\ startupFired = FALSE
    /\ reads = [k \in ReadIds |-> NoRead]
    /\ asked = 0
    /\ queries = <<>>
    /\ restarts = 0
    /\ partition = NoPartition
    /\ exited = FALSE
    /\ statistics = NoStatistics
    /\ fetch = NoFetch
    /\ sampler = NoSampler

\* Somebody removes a raw file from private/data while the process runs.
DeleteRawFile ==
    /\ \E k \in DOMAIN dataDir :
          dataDir' = [j \in DOMAIN dataDir \ {k} |-> dataDir[j]]
    /\ UNCHANGED <<config, statics, latestOutput, coreFile, runs, started,
                   startupFired, reads, asked, aside>>

DeletionNext ==
    \/ TimerTick
    \/ \E r \in RunIds : PriceArrives(r)
    \/ \E r \in RunIds : ExecuteBatch(r)
    \/ \E r \in RunIds : Persist(r)
    \/ \E r \in RunIds : BuildResult(r)
    \/ \E r \in RunIds : SetLatest(r)
    \/ \E r \in RunIds : Deliver(r)
    \/ DeleteRawFile
DeletionSpec == DeletionInit /\ [][DeletionNext]_vars

\* ------------------------------------------- the statistics of a run alone
\* Terminal prices of few bits, whose sums are exact, and of all the bits a
\* number keeps, whose sums are rounded.
SamplePrices == TerminalPrices \cup {174, 202}
SampleArrays == UNION {[1..n -> SamplePrices] : n \in 1..MaxCount}

StatisticsInit ==
    /\ config \in StoreConfigs
    /\ lastKnownPrice = Null
    /\ connectionLost = FALSE
    /\ fileIndex = getLastFileIndex({})
    /\ simulatedData = 0
    /\ simulationCounter = 0
    /\ simulationStatus = "OK"
    /\ latestOutput = NoOutput
    /\ coreFile = [exists |-> FALSE, lines |-> <<>>]
    /\ dataDir = NoFiles
    /\ runs = [r \in RunIds |-> IdleRun]
    /\ started = 0
    /\ startupFired = FALSE
    /\ reads = [k \in ReadIds |-> NoRead]
    /\ asked = 0
    /\ queries = <<>>
    /\ restarts = 0
    /\ partition = NoPartition
    /\ exited = FALSE
    /\ \E allPrices \in SampleArrays :
          statistics = [prices |-> allPrices, computed |-> FALSE]
    /\ fetch = NoFetch
    /\ sampler = NoSampler

\* Lines 865-869 of generateSimulations on the array, and the rounded values
\* line 895 puts into the log entry.
computeStatistics ==
    /\ ~statistics.computed
    /\ statistics' =
           [prices |-> statistics.prices,
            computed |-> TRUE,
            lowestPrice |-> lowestPrice(statistics.prices),
            highestPrice |-> highestPrice(statistics.prices),
            averagePrice |-> averagePrice(statistics.prices),
            stdDev |-> stdDev(statistics.prices),
            targetPrice |-> calculateTargetPrice(statistics.prices),
            logEntry |-> logEntry(1, 10, statistics.prices,
                                  Len(statistics.prices), Len(statistics.prices), 1)]
    /\ UNCHANGED <<config, statics, latestOutput, files, runs, started,
                   startupFired, reads, asked, queries, restarts, partition,
                   exited, fetch, sampler>>

StatisticsSpec == StatisticsInit /\ [][computeStatistics]_vars

\* ------------------------------------------------- getCurrentPrice alone
\* The service at rest: nothing has run and nothing was asked.
ServiceAtRest ==
    /\ config \in StoreConfigs
    /\ lastKnownPrice = Null
    /\ connectionLost = FALSE
    /\ fileIndex = getLastFileIndex({})
    /\ simulatedData = 0
    /\ simulationCounter = 0
    /\ simulationStatus = "OK"
    /\ latestOutput = NoOutput
    /\ coreFile = [exists |-> FALSE, lines |-> <<>>]
    /\ dataDir = NoFiles
    /\ runs = [r \in RunIds |-> IdleRun]
    /\ started = 0
    /\ startupFired = FALSE
    /\ reads = [k \in ReadIds |-> NoRead]
    /\ asked = 0
    /\ queries = <<>>
    /\ restarts = 0
    /\ partition = NoPartition
    /\ exited = FALSE
\* What the two feeds may answer: null for a request that failed (the catch
\* of fetchCoinGeckoPrice and of fetchEtherscanPrice), or a price.
FeedAnswers == {Null, 8, 10, 12, 14, 16, 18}

FetchInit ==
    /\ ServiceAtRest
    /\ statistics = NoStatistics
    /\ fetch = NoFetch
    /\ sampler = NoSampler

\* `await this.fetchCoinGeckoPrice()` comes back.
fetchCoinGeckoPrice ==
    /\ fetch.pc = "idle"
    /\ \E answer \in FeedAnswers :
          fetch' = [fetch EXCEPT !.pc = "coinGecko", !.priceCoinGecko = answer]
    /\ UNCHANGED <<config, statics, latestOutput, files, runs, started,
                   startupFired, reads, asked, queries, restarts, partition,
                   exited, statistics, sampler>>
\* `await this.fetchEtherscanPrice()`, called after the first, comes back.
fetchEtherscanPrice ==
    /\ fetch.pc = "coinGecko"
    /\ \E answer \in FeedAnswers :
          fetch' = [fetch EXCEPT !.pc = "etherscan", !.priceEtherscan = answer]
    /\ UNCHANGED <<config, statics, latestOutput, files, runs, started,
                   startupFired, reads, asked, queries, restarts, partition,
                   exited, statistics, sampler>>
\* The if-chain of getCurrentPrice: it returns a price or throws.
returnCurrentPrice ==
    /\ fetch.pc = "etherscan"
    /\ fetch' = [fetch EXCEPT
                     !.pc = "returned",
                     !.threw = getCurrentPrice(fetch.priceCoinGecko,
                                               fetch.priceEtherscan).threw,
                     !.price = getCurrentPrice(fetch.priceCoinGecko,
                                               fetch.priceEtherscan).price]
    /\ UNCHANGED <<config, statics, latestOutput, files, runs, started,
                   startupFired, reads, asked, queries, restarts, partition,
                   exited, statistics, sampler>>

FetchNext == fetchCoinGeckoPrice \/ fetchEtherscanPrice \/ returnCurrentPrice
FetchSpec == FetchInit /\ [][FetchNext]_vars

\* ------------------------------------------------------ the sampler alone
MaxDays == 5
SamplerPrices == {10, 12}
SamplerVolatilities == {20, 50}
\* The exponents a price can have after at most simulationDays shocks.
Exponents(volatilityPercentage, simulationDays) ==
    {volatilityPercentage * s : s \in (0 - simulationDays)..simulationDays}

SamplerInit ==
    /\ ServiceAtRest
    /\ statistics = NoStatistics
    /\ fetch = NoFetch
    /\ \E price \in SamplerPrices, volatility \in SamplerVolatilities,
          days \in 1..MaxDays :
          sampler = [NoSampler EXCEPT !.currentPrice = price,
                                      !.volatilityPercentage = volatility,
                                      !.simulationDays = days]

\* `let price = currentPrice`: the log-return is 0.
startPrice ==
    /\ sampler.pc = "idle"
    /\ sampler' = [sampler EXCEPT
           !.pc = "loop",
           !.i = 0,
           !.returns = [k \in Exponents(sampler.volatilityPercentage,
                                        sampler.simulationDays) |->
                           IF k = 0 THEN 1 ELSE 0]]
    /\ UNCHANGED <<config, statics, latestOutput, files, runs, started,
                   startupFired, reads, asked, queries, restarts, partition,
                   exited, statistics, fetch>>
\* One turn of `for (let i = 0; i < simulationDays; i++)`.
applyShock ==
    /\ sampler.pc = "loop"
    /\ sampler.i < sampler.simulationDays
    /\ sampler' = [sampler EXCEPT
           !.i = @ + 1,
           !.root = dailyChange(sampler.volatilityPercentage, 1,
                                sampler.simulationDays).root,
           !.returns = shocked(@, sampler.volatilityPercentage,
                               sampler.simulationDays)]
    /\ UNCHANGED <<config, statics, latestOutput, files, runs, started,
                   startupFired, reads, asked, queries, restarts, partition,
                   exited, statistics, fetch>>
\* `return price` once the loop has ended.
returnPrice ==
    /\ sampler.pc = "loop"
    /\ sampler.i >= sampler.simulationDays
    /\ sampler' = [sampler EXCEPT !.pc = "done"]
    /\ UNCHANGED <<config, statics, latestOutput, files, runs, started,
                   startupFired, reads, asked, queries, restarts, partition,
                   exited, statistics, fetch>>

SamplerNext == startPrice \/ applyShock \/ returnPrice
SamplerSpec == SamplerInit /\ [][SamplerNext]_vars

\* ------------------------------------------- executeFullSimulation alone
\* The loop of executeFullSimulation for any count, one batch per step, with
\* the sizes it hands to simulatePrices.
PartitionInit ==
    /\ config \in StoreConfigs
    /\ lastKnownPrice = Null
    /\ connectionLost = FALSE
    /\ fileIndex = getLastFileIndex({})
    /\ simulatedData = 0
    /\ simulationCounter = 0
    /\ simulationStatus = "OK"
    /\ latestOutput = NoOutput
    /\ coreFile = [exists |-> FALSE, lines |-> <<>>]
    /\ dataDir = NoFiles
    /\ runs = [r \in RunIds |-> IdleRun]
    /\ started = 0
    /\ startupFired = FALSE
    /\ reads = [k \in ReadIds |-> NoRead]
    /\ asked = 0
    /\ queries = <<>>
    /\ restarts = 0
    /\ exited = FALSE
    /\ statistics = NoStatistics
    /\ fetch = NoFetch
    /\ sampler = NoSampler
    /\ \E n \in -1..MaxTotal :
          partition = [totalSimulations |-> n, i |-> 0, sizes |-> <<>>]

dispatchBatch ==
    /\ partition.i < batchCount(partition.totalSimulations)
    /\ partition' = [partition EXCEPT
                         !.i = @ + 1,
                         !.sizes = Append(@, batchSize(partition.totalSimulations,
                                                       partition.i))]
    /\ UNCHANGED <<config, statics, latestOutput, files, runs, started,
                   startupFired, reads, asked, queries, restarts, exited,
                   statistics, fetch, sampler>>

PartitionSpec == PartitionInit /\ [][dispatchBatch]_vars

\* ------------------------------------------------------------- properties
\* A call that got as far as the synchronous persistence block (865-903).
Succeeded(r) == runs[r].pc \in {"overview", "output", "caller", "done"}
ReachedPersistence(r) == Succeeded(r) \/ runs[r].error = "persistence"
Ended(r) == runs[r].pc \in {"done", "failed"}
\* Call r ran with no other call in flight, and none was made after it.
RanAlone(r) == runs[r].pre.inFlight = {} /\ started = r
\* The cache entry without the status getOverview stamps on it.
Unstamped(output) ==
    IF output = NoOutput THEN output ELSE [output EXCEPT !.status = "OK"]
\* The request of call r has a field that is not strictly positive.
InvalidRequest(r) ==
    \/ ToNumber(runs[r].currentPrice) <= 0
    \/ config.totalSimulations <= 0
    \/ config.volatilityPercentage <= 0
    \/ config.simulationDays <= 0

\* The configuration is one that validation accepts.
ValidConfig ==
    /\ config.totalSimulations > 0
    /\ config.volatilityPercentage > 0
    /\ config.simulationDays > 0

\* C1: at most one simulation run is in flight at any time: a second call of
\* getSimulationData does not start its run before the first has ended.
C1_AtMostOneRunInFlight == Cardinality(InFlight) <= 1

\* C2: an overview read that finds the cache empty while a run is already in
\* flight does not start a run of its own (it waits for the run in flight).
C2_NoDuplicateRunForPendingReaders ==
    \A k \in ReadIds :
        reads[k].run # 0 => runs[reads[k].run].pre.inFlight = {}

\* C3: a run whose price request failed ends with status FAILED, adds no log
\* row, creates no raw file and leaves the cache as it was before the call,
\* whether or not an earlier run had obtained a price.  (Stated for valid
\* configurations, where the price is the only thing that can be wrong.)
C3_PriceFailureFailsRun ==
    \A r \in RunIds :
        (ValidConfig /\ runs[r].priceFailed /\ runs[r].pc # "exec")
            => /\ ~ReachedPersistence(r)
               /\ (Ended(r) /\ RanAlone(r))
                     => /\ simulationStatus = "FAILED"
                        /\ Len(LogRows) = runs[r].pre.rows
                        /\ DOMAIN dataDir = runs[r].pre.raw
                        /\ Unstamped(latestOutput) = Unstamped(runs[r].pre.cache)

\* C4: when no run is in flight the status is not PROCESSING: it is OK after
\* a run that succeeded and FAILED after one that failed.  (Stated for valid
\* configurations.)
C4_StatusLifecycle ==
    \A r \in RunIds :
        (ValidConfig /\ Ended(r) /\ InFlight = {} /\ started = r)
            => simulationStatus = IF runs[r].pc = "done" THEN "OK" ELSE "FAILED"

\* C5: a request with a non-positive price, volatility, horizon or count is
\* rejected by validation: its run never reaches the persistence block, so it
\* writes no raw file and no log row.
C5_InvalidRequestRejected ==
    \A r \in RunIds :
        (runs[r].pc \notin {"idle", "price"} /\ InvalidRequest(r))
            => /\ ~ReachedPersistence(r)
               /\ (runs[r].pc = "exec" \/ runs[r].error = "validation")

\* C6: a call rejected by validation leaves the status, the last known price,
\* the counters, the log, the raw files and the cache as they were before it.
C6_ValidationRejectionMutatesNothing ==
    \A r \in RunIds :
        (runs[r].error = "validation" /\ RanAlone(r))
            => /\ simulationStatus = runs[r].pre.status
               /\ lastKnownPrice = runs[r].pre.lastKnownPrice
               /\ simulationCounter = runs[r].pre.counter
               /\ simulatedData = runs[r].pre.simulated
               /\ Len(LogRows) = runs[r].pre.rows
               /\ DOMAIN dataDir = runs[r].pre.raw
               /\ Unstamped(latestOutput) = Unstamped(runs[r].pre.cache)

\* C7: the raw file of every successful run has exactly as many data rows as
\* the requested simulation count.
C7_RawRowCountEqualsRequested ==
    \A r \in RunIds :
        Succeeded(r)
            => Len(DataRows(dataDir[runs[r].file])) = config.totalSimulations

\* C8: the k-th data row of every complete raw file carries the number k.
C8_RawRowsNumberedByPosition ==
    \A r \in RunIds :
        Succeeded(r)
            => LET rows == DataRows(dataDir[runs[r].file])
               IN  \A k \in 1..Len(rows) : rows[k].simulation_id = k

\* C9: the i-th row of the run log has run id i.  (Stated for valid
\* configurations.)
C9_RunIdsGapless ==
    ValidConfig => \A i \in 1..Len(LogRows) : LogRows[i].simulation_id = i

\* C10: each log row's cumulative count is the previous row's plus its own
\* count (its own count for the first row), and it never decreases.  (Stated
\* for valid configurations.)
C10_CumulativeCountAdds ==
    ValidConfig =>
        \A i \in 1..Len(LogRows) :
            LET before == IF i = 1 THEN 0 ELSE LogRows[i - 1].total_simulated
            IN  /\ LogRows[i].total_simulated = before + LogRows[i].simulated_data
                /\ LogRows[i].total_simulated >= before

\* The run id of the last row of the log, 0 for a log without rows.
LastRunId ==
    IF LogRows = <<>> THEN 0 ELSE LogRows[Len(LogRows)].simulation_id

\* C11: the run id a run is given (simulationCounter + 1, line 872) is one
\* greater than the run id of the last row of the log, or 1 for a log without
\* rows, in the first life of the process and after a restart.  (Stated for
\* valid configurations.)
C11_NextIdFollowsLog ==
    config.totalSimulations > 0 => simulationCounter = LastRunId

\* C12: the prices of a run are its batches in dispatch order: position j of
\* batch b (b counts from 1) is position (b - 1) * 5000 + j of allPrices.
C12_BatchOrderKept ==
    \A r \in RunIds :
        runs[r].pc = "exec" =>
            /\ Len(runs[r].batches) = runs[r].i
            /\ Len(runs[r].allPrices) = SeqSum([b \in 1..runs[r].i |->
                                                  Len(runs[r].batches[b])])
            /\ \A b \in 1..runs[r].i : \A j \in 1..Len(runs[r].batches[b]) :
                  runs[r].allPrices[(b - 1) * desiredBatchSize + j]
                      = runs[r].batches[b][j]
\* A run has two batches in, with different prices.
C12_Witness ==
    \E r \in RunIds :
        /\ runs[r].pc = "exec"
        /\ runs[r].i = 2
        /\ runs[r].batches[1][1] # runs[r].batches[2][1]

\* executeFullSimulation has dispatched all its batches.
Partitioned ==
    /\ partition.totalSimulations >= 1
    /\ partition.i >= batchCount(partition.totalSimulations)

\* C13: a count N >= 1 is cut into ceil(N / 5000) batches, all of size 5000
\* but the last, which has N - 5000 * (batchCount - 1), between 1 and 5000;
\* the sizes add up to N.
C13_PartitionIntoBatches ==
    Partitioned =>
        LET N == partition.totalSimulations
            k == Len(partition.sizes)
        IN  /\ (k - 1) * desiredBatchSize < N
            /\ N <= k * desiredBatchSize
            /\ \A b \in 1..(k - 1) : partition.sizes[b] = desiredBatchSize
            /\ partition.sizes[k] = N - desiredBatchSize * (k - 1)
            /\ partition.sizes[k] >= 1
            /\ partition.sizes[k] <= desiredBatchSize
            /\ SeqSum(partition.sizes) = N
\* A count that is no multiple of the batch size has been cut into three
\* batches and more.
C13_Witness ==
    /\ Partitioned
    /\ Len(partition.sizes) >= 3
    /\ partition.sizes[Len(partition.sizes)] < desiredBatchSize

\* core.csv, when it exists, is the header line followed by rows only.
HeaderOnce ==
    IF coreFile.exists
        THEN /\ coreFile.lines # <<>>
             /\ coreFile.lines[1] = logHeader
             /\ \A k \in 2..Len(coreFile.lines) : coreFile.lines[k].kind = "row"
        ELSE coreFile.lines = <<>>
\* Every step keeps the lines core.csv had, in place.
LogOnlyGrows ==
    /\ Len(coreFile.lines) <= Len(coreFile'.lines)
    /\ SubSeq(coreFile'.lines, 1, Len(coreFile.lines)) = coreFile.lines
    /\ coreFile.exists => coreFile'.exists

\* C14: the run log is append-only: the header is its first line and occurs
\* once, and every step leaves the lines written so far as a prefix.
C14_LogAppendOnly == [](HeaderOnce) /\ [][LogOnlyGrows]_vars
\* Two runs have appended a row each.
C14_Witness == ValidConfig /\ Len(LogRows) = 2 /\ Len(coreFile.lines) = 3

\* The number a token of the ids parameter stands for, when it is a number.
IsNumber(token) == token.digits # Null /\ ~token.more
\* The rows of the log a history request found.
RowsFound(q) == DataRows(q.log.lines)

\* C15: getSimulationsByIds answers one entry per requested id, in request
\* order: the row at position id when 1 <= id <= number of rows, a
\* not-available marker for every other id; the request as a whole never
\* fails.
C15_EveryIdGetsItsEntry ==
    \A n \in 1..Len(queries) :
        LET q == queries[n]
        IN  q.kind = "byIds" =>
                /\ q.state = "answered"
                /\ Len(q.body) = Len(q.ids)
                /\ \A k \in 1..Len(q.ids) :
                      IF /\ IsNumber(q.ids[k])
                         /\ ~q.ids[k].minus
                         /\ q.ids[k].digits >= 1
                         /\ q.ids[k].digits <= Len(RowsFound(q))
                          THEN q.body[k] = RowsFound(q)[q.ids[k].digits]
                          ELSE q.body[k].kind = "error"

\* Call r appended its row to core.csv.
Appended(r) == runs[r].file # 0 /\ runs[r].error = "none"

\* C16: listRuns answers with every row of the log, once each and in the
\* order of the file, as many as there are runs that appended a row; it
\* fails only when there is no log file.
C16_ListReturnsEveryRow ==
    /\ Len(LogRows) = Cardinality({r \in RunIds : Appended(r)})
    /\ \A n \in 1..Len(queries) :
          LET q == queries[n]
          IN  q.kind = "list" =>
                  /\ q.state = "answered" => q.body = RowsFound(q)
                  /\ q.state = "error" => (~q.log.exists /\ RowsFound(q) = <<>>)
\* A listRuns call answered with the rows of two runs.
C16_Witness ==
    \E n \in 1..Len(queries) :
        /\ queries[n].kind = "list"
        /\ queries[n].state = "answered"
        /\ Len(queries[n].body) = 2
        /\ config.totalSimulations > 0

\* Two listRuns calls in a row found the same log.
SameLogTwice ==
    /\ Len(queries) = 2
    /\ queries[1].kind = "list"
    /\ queries[2].kind = "list"
    /\ queries[1].log = queries[2].log
\* A history request leaves the files, the statics and the cache alone.
QueryChangesNothing ==
    queries' # queries => UNCHANGED <<files, statics, latestOutput, runs, reads>>

\* C17: two listRuns calls with no row appended between them answer the same,
\* and a listRuns call changes neither the log nor the counters nor the cache.
C17_ListIsIdempotent ==
    /\ [](SameLogTwice => (/\ queries[1].state = queries[2].state
                           /\ queries[1].body = queries[2].body))
    /\ [][QueryChangesNothing]_vars
\* Two listRuns calls in a row were answered with the one row of the log.
C17_Witness ==
    /\ SameLogTwice
    /\ queries[2].state = "answered"
    /\ Len(queries[2].body) = 1
    /\ config.totalSimulations > 0

\* The log row call r appended (r has appended one).
RowOf(r) == CHOOSE row \in Range(LogRows) : row.data_source = runs[r].file
\* The prices of the overview in `body` are those of the log row `row`.
SameStatistics(body, row) ==
    /\ body.overview.current.price = row.current_price
    /\ body.overview.highest.price = row.highest_price
    /\ body.overview.target.price = row.target_price
    /\ body.overview.average.price = row.average_price
    /\ body.overview.lowest.price = row.lowest_price
\* Call r has come back from getSimulationData.
Returned(r) == runs[r].pc \in {"caller", "done"}

\* C18: an overview request that arrives while a run is in flight and the
\* cache is filled is answered at once, with the statistics of a run that
\* had completed before.
C18_StaleButAvailable ==
    \A k \in ReadIds :
        (reads[k].state # "none" /\ reads[k].run = 0 /\ reads[k].during # {})
            => /\ reads[k].state = "answered"
               /\ reads[k].body # NoOutput
               /\ Returned(reads[k].body.run)
               /\ SameStatistics(reads[k].body, RowOf(reads[k].body.run))
\* A request was answered from the cache while another run was in flight.
C18_Witness ==
    \E k \in ReadIds :
        /\ reads[k].state = "answered"
        /\ reads[k].run = 0
        /\ reads[k].during \ {reads[k].body.run} # {}
        /\ ValidConfig

\* C19: no overview request is answered with an empty overview.  A request
\* that finds the cache empty makes a call of its own, waits for it, and is
\* answered with the overview of that call, or with an error when it threw; a
\* request makes no call only when a run had completed.
C19_NeverAnEmptyOverview ==
    \A k \in ReadIds :
        LET read == reads[k]
        IN  /\ read.state = "answered" =>
                  (read.body # NoOutput /\ Returned(read.body.run))
            /\ (read.state # "none" /\ read.run # 0) =>
                  /\ runs[read.run].pre.cache = NoOutput
                  /\ runs[read.run].trigger = "read"
                  /\ read.state = "waiting" => read.run \in InFlight
                  /\ read.state = "error" => runs[read.run].pc = "failed"
                  /\ read.state = "answered" =>
                        /\ read.body.run = read.run
                        /\ SameStatistics(read.body, RowOf(read.run))
\* A request that found the cache empty was answered by its own run.
C19_Witness ==
    \E k \in ReadIds :
        /\ reads[k].state = "answered"
        /\ reads[k].run # 0
        /\ reads[k].body.overview.highest.price # NaN

\* The cache changes only when a call that succeeded stores its output
\* (getSimulationData, and again getOverview for its own call) and when
\* getOverview writes the status into the entry.
CacheWrittenBySuccess ==
    latestOutput' # latestOutput =>
        \/ \E r \in RunIds :
              /\ runs[r].pc \in {"output", "caller"}
              /\ latestOutput' \in {runs[r].output, Stamped(runs[r].output)}
        \/ /\ latestOutput # NoOutput
           /\ latestOutput' = Stamped(latestOutput)
\* A step of a call that has not stored its output yet leaves the cache.
FailingStepKeepsCache ==
    \A r \in RunIds :
        (runs'[r] # runs[r] /\ runs'[r].pc \in {"price", "exec", "overview",
                                                "output", "failed"})
            => latestOutput' = latestOutput

ReferencePrices ==
    {Null} \cup {getCurrentPrice(cg, es).price :
                    cg \in CoinGeckoAnswers, es \in EtherscanAnswers}
PriceArrays == UNION {[1..n -> TerminalPrices] : n \in 0..MaxCount}
\* One value of an overview with its percentage, computed from `price`
\* against the reference price p.
OverviewValue(price, p) ==
    [price |-> MathRound(price),
     changePercentage |-> calculateChangePercentage(price, p)]
\* The overview and the statistics of the log row that the prices a and the
\* reference price p give.
OneRun(p, a) ==
    [overview |-> [current |-> [price |-> ToNumber(p)],
                   highest |-> OverviewValue(highestPrice(a), p),
                   target  |-> OverviewValue(calculateTargetPrice(a), p),
                   average |-> OverviewValue(averagePrice(a), p),
                   lowest  |-> OverviewValue(lowestPrice(a), p)],
     row |-> [current_price |-> ToNumber(p),
              highest_price |-> MathRound(highestPrice(a)),
              target_price  |-> MathRound(calculateTargetPrice(a)),
              average_price |-> MathRound(averagePrice(a)),
              lowest_price  |-> MathRound(lowestPrice(a))]]
\* What a run can produce, over all reference prices and price arrays.
OneRunTable == {OneRun(p, a) : p \in ReferencePrices, a \in PriceArrays}
\* The statistics of a log row.
StatisticsOf(row) ==
    [current_price |-> row.current_price,
     highest_price |-> row.highest_price,
     target_price  |-> row.target_price,
     average_price |-> row.average_price,
     lowest_price  |-> row.lowest_price]

\* C21: the overview of every answer is that of one run: there is one
\* reference price and one array of terminal prices from which its reference
\* price, its four values and their percentages are all computed, and they
\* are those of the log row of the run the answer names, whatever other run
\* was in flight when the request arrived.
C21_OverviewFromOneRun ==
    \A k \in ReadIds :
        reads[k].state = "answered" =>
            [overview |-> reads[k].body.overview,
             row |-> StatisticsOf(RowOf(reads[k].body.run))] \in OneRunTable
\* A request that arrived while another run was in flight was answered, and
\* the two runs of the log have different statistics.
C21_Witness ==
    /\ ValidConfig
    /\ Len(LogRows) = 2
    /\ LogRows[1].highest_price # LogRows[2].highest_price
    /\ LogRows[1].average_price # LogRows[2].average_price
    /\ \E k \in ReadIds :
          /\ reads[k].state = "answered"
          /\ reads[k].during # {}


\* A step in which an overview request arrives and finds a cache entry.
ReadHitsCache == asked' # asked /\ latestOutput # NoOutput
\* Such a step leaves the cache entry as it is.
ReadLeavesEntry == ReadHitsCache => latestOutput' = latestOutput

\* C22: an overview request that is answered from the cache modifies no field
\* of the cache entry: overview, details and stored status are after the
\* request what they were before it.
C22_ReadKeepsCacheEntry == [][ReadLeavesEntry]_vars

\* The row of the log with the highest run id (the log has a row).
NewestRow ==
    CHOOSE row \in Range(LogRows) :
        \A other \in Range(LogRows) : other.simulation_id <= row.simulation_id
\* A call has returned its output and no call is in flight.
QuietAfterSuccess == InFlight = {} /\ \E r \in RunIds : runs[r].pc = "done"

\* C23: when a run has completed and no run is in flight, the cache holds the
\* output of the run that was persisted last: the entry an overview request
\* is answered with then names the run of the log row with the highest run
\* id and carries its statistics.
C23_CacheHoldsNewestRun ==
    QuietAfterSuccess =>
        /\ latestOutput # NoOutput
        /\ runs[latestOutput.run].file = NewestRow.data_source
        /\ SameStatistics(latestOutput, NewestRow)

\* Call r ended because turbit.run rejected one of its batches.
BatchFailed(r) == runs[r].pc = "failed" /\ runs[r].error = "worker"
\* The step in which a batch of a call is rejected leaves the files and the
\* counters alone, and a call that has failed takes no further step.
BatchFailureKeepsStore ==
    \A r \in RunIds :
        /\ (runs[r].pc = "exec" /\ runs'[r].pc = "failed" /\ runs'[r].error = "worker")
              => UNCHANGED <<files, simulationCounter, simulatedData, fileIndex>>
        /\ (runs[r].pc = "failed" /\ restarts' = restarts) => runs'[r] = runs[r]

\* C24: a run one of whose batches is rejected is discarded as a whole: the
\* rejection creates no raw file, appends no log row and leaves the run
\* counter and the cumulative count as they are, the run does nothing after
\* it, and so the batches that had come in are never written; with no other
\* run about, files and counters are what they were when the run was started.
C24_BatchFailureDiscardsRun ==
    /\ [][BatchFailureKeepsStore]_vars
    /\ [](\A r \in RunIds :
            (BatchFailed(r) /\ RanAlone(r))
                => /\ DOMAIN dataDir = runs[r].pre.raw
                   /\ Len(LogRows) = runs[r].pre.rows
                   /\ simulationCounter = runs[r].pre.counter
                   /\ simulatedData = runs[r].pre.simulated)
\* The second batch of a run was rejected after its first batch had come in.
C24_Witness ==
    \E r \in RunIds :
        /\ BatchFailed(r)
        /\ runs[r].i = 1
        /\ RanAlone(r)

\* The raw file with index k has the rows of a whole run.
CompleteRawFile(k) == Len(DataRows(dataDir[k])) = config.totalSimulations

\* C25: private/data never holds a raw file with only a part of its run's
\* rows: every raw file that exists has all the rows of its run, also after
\* a write of the run has failed.  (Stated for valid configurations.)
C25_NoPartialRawFile ==
    ValidConfig => \A k \in DOMAIN dataDir : CompleteRawFile(k)

\* A call of getSimulationData has thrown.
SomeRunFailed == \E r \in RunIds : runs[r].pc = "failed"

\* C26: a run that fails does not end the process, whoever started it (the
\* timer included): after the failure the process is alive, so that overview
\* requests go on being answered from the cache.
C26_RunFailureKeepsProcess == SomeRunFailed => ~exited

\* A step in which a call goes through its persistence block (865-903).
PersistStep ==
    \E r \in RunIds :
        /\ runs[r].pc = "exec"
        /\ runs'[r].pc = "overview" \/ runs'[r].error = "persistence"
\* The index such a step chooses is 1 for an empty directory and otherwise
\* one more than the highest index there; the step writes to no file that
\* existed and creates no file but the one of that index.
IndexIsFresh ==
    PersistStep =>
        /\ DOMAIN dataDir = {} => fileIndex' = 1
        /\ DOMAIN dataDir # {} =>
              /\ fileIndex' - 1 \in DOMAIN dataDir
              /\ \A k \in DOMAIN dataDir : k < fileIndex'
        /\ fileIndex' \notin DOMAIN dataDir
        /\ \A k \in DOMAIN dataDir : k \in DOMAIN dataDir' /\ dataDir'[k] = dataDir[k]
        /\ DOMAIN dataDir' \ DOMAIN dataDir \subseteq {fileIndex'}

\* C27: the index of the raw file of a run is one greater than the highest
\* index among the raw files that exist when the run persists (1 if there is
\* none), whatever files were deleted by hand before: the run writes to no
\* existing file and takes no index below the highest one there.
C27_FileIndexAboveExisting == [][IndexIsFresh]_vars
\* A run that was started when only file 2 of files 1 and 2 was left wrote
\* file 3, and a run wrote file 1 into a directory emptied by hand.
C27_Witness ==
    \E r, q \in RunIds :
        /\ Succeeded(r)
        /\ runs[r].pre.raw = {2}
        /\ runs[r].file = 3
        /\ Succeeded(q)
        /\ runs[q].pre.raw = {}
        /\ runs[q].file = 1
        /\ fileIndex \in DOMAIN dataDir
        /\ q > r

\* The run ids of the log grow along the file: a row appended later has the
\* greater id, and no two rows have the same.
IdsIncreaseAlongLog ==
    \A i, j \in 1..Len(LogRows) :
        i < j => LogRows[i].simulation_id < LogRows[j].simulation_id
\* Every id given out so far is the id of a row: the counter the ids are
\* taken from has advanced once per row.
NoIdWithoutRow == simulationCounter = Len(LogRows)

\* C28: ids follow the order in which the rows are appended, no two rows
\* share an id, and only a run that appends its row takes an id: a run that
\* fails while persisting leaves the counter where it was.
C28_IdsInCompletionOrder == IdsIncreaseAlongLog /\ NoIdWithoutRow

\* x <= y and x = y for numbers x and y.
Leq(x, y) == x.n * y.d <= y.n * x.d
Same(x, y) == x.n * y.d = y.n * x.d
\* lowest <= average <= highest and average <= target.
Ordered(lowest, average, highest, target) ==
    /\ Leq(lowest, average)
    /\ Leq(average, highest)
    /\ Leq(average, target)

\* C29: for a non-empty array of terminal prices the lowest is at most the
\* average, the average at most the highest and at most the target, and the
\* rounded values of the log entry are in the same order.
C29_StatisticsOrdered ==
    statistics.computed =>
        /\ Ordered(statistics.lowestPrice, statistics.averagePrice,
                   statistics.highestPrice, statistics.targetPrice)
        /\ Ordered(statistics.logEntry.lowest_price,
                   statistics.logEntry.average_price,
                   statistics.logEntry.highest_price,
                   statistics.logEntry.target_price)

\* C30: for an array of one terminal price p the standard deviation is 0 and
\* lowest, average, highest and target are all p, as are the rounded values
\* of the log entry: none of them is NaN.
C30_SinglePriceStatistics ==
    (statistics.computed /\ Len(statistics.prices) = 1) =>
        LET p == Rat(statistics.prices[1], 1)
        IN  /\ statistics.stdDev # NaN
            /\ Same(statistics.stdDev, Rat(0, 1))
            /\ \A value \in {statistics.lowestPrice, statistics.averagePrice,
                             statistics.highestPrice, statistics.targetPrice,
                             statistics.logEntry.lowest_price,
                             statistics.logEntry.average_price,
                             statistics.logEntry.highest_price,
                             statistics.logEntry.target_price} :
                  value # NaN /\ Same(value, p)
\* The statistics of an array of the one price 174 were computed.
C30_Witness ==
    /\ statistics.computed
    /\ statistics.prices = <<174>>
    /\ statistics.targetPrice.n = 174 * statistics.targetPrice.d

\* The percentage pct carries a sign that agrees with its hundredths, and
\* agrees with (value - reference) / reference * 100 computed from the rounded
\* value and the reference stored next to it: the two differ by no more than
\* the rounding of the value to an integer (half a unit, 50 / reference
\* percent) and of the percentage to hundredths (half a hundredth) explain.
Magnitude(x) == IF x >= 0 THEN x ELSE 0 - x
Recomputes(pct, value, reference) ==
    /\ ~pct.nan
    /\ value # NaN
    /\ reference > 0
    /\ pct.plus => pct.hundredths >= 0
    /\ ~pct.plus => pct.hundredths <= 0
    /\ 2 * Magnitude(pct.hundredths * reference * value.d
                     - 10000 * (value.n - reference * value.d))
           <= (10000 + reference) * value.d
\* The four percentages of an overview against its own prices.
OverviewRecomputes(overview) ==
    \A field \in {overview.highest, overview.target, overview.average, overview.lowest} :
        Recomputes(field.changePercentage, field.price, overview.current.price)
\* The overviews served so far and the one in the cache.
OverviewsServed ==
    {reads[k].body.overview : k \in {j \in ReadIds : reads[j].state = "answered"}}
        \cup (IF latestOutput = NoOutput THEN {} ELSE {latestOutput.overview})
\* The rows of the raw file that a log row names, against the price of
\* that log row.
RawRowsRecompute ==
    \A i \in 1..Len(LogRows) :
        LogRows[i].data_source \in DOMAIN dataDir =>
            \A row \in Range(DataRows(dataDir[LogRows[i].data_source])) :
                Recomputes(row.percentage_change, row.price, LogRows[i].current_price)

\* C31: every percentage of a served overview and of a raw file is signed,
\* is a number, and is reproduced within the rounding tolerance by
\* (value - reference) / reference * 100 from the rounded value and the
\* reference price stored with it.
C31_PercentagesConsistent ==
    /\ \A overview \in OverviewsServed : OverviewRecomputes(overview)
    /\ RawRowsRecompute

\* C32: getCurrentPrice returns the arithmetic mean of the two prices when
\* both feeds answered, the price of the one that answered when the other
\* failed, and throws exactly when both failed.
C32_PriceFromAvailableFeeds ==
    fetch.pc = "returned" =>
        /\ fetch.threw <=> (fetch.priceCoinGecko = Null /\ fetch.priceEtherscan = Null)
        /\ (fetch.priceCoinGecko # Null /\ fetch.priceEtherscan # Null) =>
              2 * fetch.price = fetch.priceCoinGecko + fetch.priceEtherscan
        /\ (fetch.priceCoinGecko # Null /\ fetch.priceEtherscan = Null) =>
              fetch.price = fetch.priceCoinGecko
        /\ (fetch.priceCoinGecko = Null /\ fetch.priceEtherscan # Null) =>
              fetch.price = fetch.priceEtherscan
\* The feeds answered 10 and 14 and 12 was returned.
C32_Witness ==
    /\ fetch.pc = "returned"
    /\ fetch.priceCoinGecko = 10
    /\ fetch.priceEtherscan = 14
    /\ ~fetch.threw
    /\ fetch.price = 12

\* The sum of returns[k] * k^power over the exponents k of S.
RECURSIVE MomentOver(_, _)
MomentOver(S, power) ==
    IF S = {} THEN 0
    ELSE LET k == CHOOSE x \in S : TRUE
         IN  sampler.returns[k] * (IF power = 0 THEN 1 ELSE IF power = 1 THEN k ELSE k * k)
                 + MomentOver(S \ {k}, power)
\* The moments of the distribution of the terminal log-return: the number of
\* shock sequences, and the sums of the exponent numerators and of their
\* squares over them.
ReturnCount == MomentOver(DOMAIN sampler.returns, 0)
ReturnSum == MomentOver(DOMAIN sampler.returns, 1)
ReturnSquares == MomentOver(DOMAIN sampler.returns, 2)

\* C33: a returned price has taken exactly simulationDays shocks from
\* currentPrice, and the terminal log-return has mean 0 and standard
\* deviation equal to the volatility, whatever the horizon: the mean of the
\* squared exponents (numerator / sqrt(root))^2 is the volatility squared.
C33_DispersionIndependentOfHorizon ==
    sampler.pc = "done" =>
        /\ sampler.i = sampler.simulationDays
        /\ ReturnCount = Pow2[sampler.simulationDays]
        /\ ReturnSum = 0
        /\ ReturnSquares = sampler.volatilityPercentage * sampler.volatilityPercentage
                               * sampler.root * ReturnCount
\* A price was returned after 5 days of volatility 20.
C33_Witness ==
    /\ sampler.pc = "done"
    /\ sampler.simulationDays = 5
    /\ sampler.volatilityPercentage = 20
    /\ sampler.returns[100] = 1
    /\ sampler.returns[20] = 10

\* Call r comes back from currentPriceBTC in this step.
PriceStepOf(r) == runs[r].pc = "price" /\ runs'[r].pc # "price"
\* The call goes on, whatever the feeds did: after a fetch that succeeded
\* with the fresh price, which is stored, and connectionLost cleared; after
\* one that failed with the price stored before, which stays, and
\* connectionLost set.
PriceStepNeverThrows ==
    \A r \in RunIds :
        PriceStepOf(r) =>
            /\ runs'[r].pc = "exec"
            /\ runs'[r].error = "none"
            /\ IF runs'[r].priceFailed
                  THEN /\ connectionLost'
                       /\ lastKnownPrice' = lastKnownPrice
                       /\ runs'[r].currentPrice = lastKnownPrice
                  ELSE /\ ~connectionLost'
                       /\ lastKnownPrice' # Null
                       /\ runs'[r].currentPrice = lastKnownPrice'
\* A run whose fetch failed after an earlier fetch had succeeded has that
\* earlier price, and is not rejected for its price.
StalePriceProceeds ==
    \A r \in RunIds :
        (runs[r].priceFailed /\ runs[r].pre.lastKnownPrice # Null) =>
            /\ runs[r].currentPrice = runs[r].pre.lastKnownPrice
            /\ ValidConfig => runs[r].error # "validation"

\* C34: currentPriceBTC never throws: it returns the fresh price, stored, with
\* connectionLost cleared, or after a failed fetch the price stored before
\* (null if none), with connectionLost set; a run whose fetch fails after an
\* earlier one succeeded goes on with the stale price.
C34_PriceFailureUsesLastKnown == []StalePriceProceeds /\ [][PriceStepNeverThrows]_vars
\* A run whose fetch failed has stored its rows, computed from the price 10
\* of the run before.
C34_Witness ==
    \E r \in RunIds :
        /\ runs[r].priceFailed
        /\ connectionLost
        /\ runs[r].currentPrice = 10
        /\ Succeeded(r)
        /\ \E i \in 1..Len(LogRows) :
              LogRows[i].data_source = runs[r].file /\ LogRows[i].current_price = 10

\* Call r persists in this step: it scans for the index and writes until it
\* is through or a write throws.
PersistStepOf(r) ==
    /\ runs[r].pc = "exec"
    /\ runs'[r].pc = "overview" \/ runs'[r].error = "persistence"
\* Such a step leaves every raw file that existed as it was; a file it
\* creates holds rows of this run's prices only, in their order; and the log
\* keeps its lines and gets at most a header and one row, the row of this
\* run, at its end.
PersistWritesItsOwn(r) ==
    /\ \A k \in DOMAIN dataDir : k \in DOMAIN dataDir' /\ dataDir'[k] = dataDir[k]
    /\ \A k \in DOMAIN dataDir' \ DOMAIN dataDir :
          /\ k = fileIndex'
          /\ LET rows == DataRows(dataDir'[k])
             IN  /\ Len(rows) <= Len(runs[r].allPrices)
                 /\ \A j \in 1..Len(rows) :
                       rows[j].price = MathRound(Rat(runs[r].allPrices[j], 1))
    /\ Len(coreFile'.lines) >= Len(coreFile.lines)
    /\ SubSeq(coreFile'.lines, 1, Len(coreFile.lines)) = coreFile.lines
    /\ Len(DataRows(coreFile'.lines)) <= Len(LogRows) + 1
    /\ Len(DataRows(coreFile'.lines)) = Len(LogRows) + 1 =>
          /\ runs'[r].pc = "overview"
          /\ coreFile'.lines[Len(coreFile'.lines)].data_source = fileIndex'
          /\ coreFile'.lines[Len(coreFile'.lines)].simulation_id = simulationCounter'
\* The files change in the persistence step of a run and in no other step.
FilesWrittenInOneStep ==
    /\ \A r \in RunIds : PersistStepOf(r) => PersistWritesItsOwn(r)
    /\ files' # files => \E r \in RunIds : PersistStepOf(r)
\* Two runs that have persisted have different raw files, each named by one
\* log row.
RunsHaveOwnFiles ==
    \A r, q \in RunIds :
        (r # q /\ Succeeded(r) /\ Succeeded(q)) =>
            /\ runs[r].file # runs[q].file
            /\ Cardinality({i \in 1..Len(LogRows) :
                               LogRows[i].data_source = runs[r].file}) = 1

\* C35: runs that overlap never write to the same raw file and their log
\* rows are not interleaved: the index scan, the raw file with all its chunks
\* and the log row of one run are written in one step, between which no
\* other run writes.
C35_PersistenceNotInterleaved == []RunsHaveOwnFiles /\ [][FilesWrittenInOneStep]_vars
\* Two runs that overlapped (the second began while the first was in flight,
\* and persisted first) have stored files 1 and 2 and a log row each.
C35_Witness ==
    /\ Succeeded(1)
    /\ Succeeded(2)
    /\ 1 \in runs[2].pre.inFlight
    /\ runs[2].file = 1
    /\ runs[1].file = 2
    /\ Len(LogRows) = 2
    /\ Len(DataRows(dataDir[1])) = 3

\* Overview request k is answered in this step.
AnsweredIn(k) == reads[k].state # "answered" /\ reads'[k].state = "answered"
\* The runs in flight that have not come to line 903 yet: they wait for the
\* price or for a batch.
NotYetStored == {r \in RunIds : runs[r].pc \in {"price", "exec"}}
\* An answer given while such a run is in flight reports PROCESSING.
StatusTellsOfRuns ==
    \A k \in ReadIds :
        (AnsweredIn(k) /\ NotYetStored # {}) => reads'[k].body.status = "PROCESSING"

\* C36: an overview request that is answered while a run is in flight reports
\* the status PROCESSING; OK is reported only when no run is in flight, also
\* when two runs overlap and one of them has finished.
C36_ProcessingWhileAnyRunInFlight == [][StatusTellsOfRuns]_vars

\* The details of the result of call r are those of the log row it appended.
DetailsOfOwnRow(r) ==
    /\ runs[r].output.details.totalSimulations = RowOf(r).simulation_id
    /\ runs[r].output.details.simulatedData = RowOf(r).total_simulated
    /\ runs[r].output.details.dataSource = RowOf(r).data_source
\* Call r has built its result and not handed it over yet.
HasResult(r) == runs[r].pc \in {"output", "caller"}

\* C37: the details of the result of a run are those of the run itself: run
\* count, cumulative count and data source are the run id, the cumulative
\* count and the raw file of the log row the run appended, also when another
\* run has persisted after it and before its result was built.
C37_DetailsDescribeOwnRun ==
    \A r \in RunIds : HasResult(r) => DetailsOfOwnRow(r)

\* C38: in a store that was empty when the process started and from which
\* nothing is deleted by hand, the log row with run id k names the raw file
\* of index k, whatever runs have succeeded and failed.
C38_RowNamesFileOfItsId ==
    \A i \in 1..Len(LogRows) : LogRows[i].data_source = LogRows[i].simulation_id

\* Every row that request q resolved an id to has that id as its run id.
ResolvedRowsHaveTheirId(q) ==
    \A k \in 1..Len(q.body) :
        q.body[k].kind = "row" => q.body[k].simulation_id = parseInt(q.ids[k]).n

\* C39: every row that getSimulationsByIds returns for an id has that id in
\* its simulation_id field, whatever runs succeeded and failed and however
\* often the process was started again.
C39_LookupReturnsRequestedId ==
    \A n \in 1..Len(queries) :
        (queries[n].kind = "byIds" /\ queries[n].state = "answered") =>
            ResolvedRowsHaveTheirId(queries[n])

\* The data rows of the raw files S of private/data: their lines without the
\* header lines.
RECURSIVE RawDataRows(_)
RawDataRows(S) ==
    IF S = {} THEN 0
    ELSE LET k == CHOOSE f \in S : TRUE
         IN  Len(DataRows(dataDir[k])) + RawDataRows(S \ {k})

\* The process is started again in this step.
Restarted == restarts' = restarts + 1

\* What init leaves in the counters, against the files it read.
CountersRestored ==
    /\ simulatedData' = RawDataRows(DOMAIN dataDir)
    /\ LogRows # <<>> => simulatedData' = LogRows[Len(LogRows)].total_simulated
    /\ simulationCounter' = Cardinality(DOMAIN dataDir)

\* C40: when the process is started again on the files it left, init sets the
\* cumulative simulation count to the number of data rows of all raw files,
\* which is the cumulative count of the last row of the run log, and the run
\* counter to the number of raw files.
C40_InitRestoresCounters == [][Restarted => CountersRestored]_vars

\* ------------------------------------------------ what does hold of the code
\* No fs.writeFileSync call has thrown so far.
NoWriteFailed == \A r \in RunIds : runs[r].error # "persistence"

\* With a count of at least 1, a non-positive price, volatility or horizon is
\* rejected in the first batch, before anything is written.
PositiveCountIsValidated ==
    \A r \in RunIds :
        (runs[r].pc \notin {"idle", "price"} /\ InvalidRequest(r)
            /\ config.totalSimulations > 0)
            => /\ ~ReachedPersistence(r)
               /\ (runs[r].pc = "exec" \/ runs[r].error = "validation")

\* A call rejected by validation leaves the counters, the log, the raw files
\* and the cache as they were.
RejectionKeepsStore ==
    \A r \in RunIds :
        (runs[r].error = "validation" /\ RanAlone(r))
            => /\ simulationCounter = runs[r].pre.counter
               /\ simulatedData = runs[r].pre.simulated
               /\ Len(LogRows) = runs[r].pre.rows
               /\ DOMAIN dataDir = runs[r].pre.raw
               /\ Unstamped(latestOutput) = Unstamped(runs[r].pre.cache)

\* For counts of 0 and more the raw file of a successful run has as many data
\* rows as were requested.
RowCountForNonNegativeCounts ==
    \A r \in RunIds :
        (Succeeded(r) /\ config.totalSimulations >= 0)
            => Len(DataRows(dataDir[runs[r].file])) = config.totalSimulations

\* As long as no write fails, the run ids of the log are 1, 2, 3, ...
GaplessWhileNoWriteFailed ==
    (NoWriteFailed /\ ValidConfig)
        => \A i \in 1..Len(LogRows) : LogRows[i].simulation_id = i

\* As long as no write fails, the cumulative count of a row is the previous
\* one plus the row's own count.
CumulativeWhileNoWriteFailed ==
    (NoWriteFailed /\ ValidConfig) =>
        \A i \in 1..Len(LogRows) :
            LET before == IF i = 1 THEN 0 ELSE LogRows[i - 1].total_simulated
            IN  /\ LogRows[i].total_simulated = before + LogRows[i].simulated_data
                /\ LogRows[i].total_simulated >= before

\* An overview request answered from the cache changes the status field of
\* the entry at most: the overview and the details stay.
ReadKeepsOverviewAndDetails ==
    [][ReadHitsCache => /\ latestOutput'.overview = latestOutput.overview
                        /\ latestOutput'.details = latestOutput.details
                        /\ latestOutput'.run = latestOutput.run]_vars

\* No call was made while another was in flight.
NoOverlap == \A r \in RunIds : runs[r].pre.inFlight = {}

\* As long as calls do not overlap, the cache holds the run persisted last
\* whenever a run has completed and none is in flight.
NewestRunWhileNoOverlap ==
    (QuietAfterSuccess /\ NoOverlap) =>
        /\ latestOutput # NoOutput
        /\ runs[latestOutput.run].file = NewestRow.data_source
        /\ SameStatistics(latestOutput, NewestRow)

\* As long as no write fails, every raw file has all the rows of its run.
RawFilesCompleteWhileNoWriteFailed ==
    (NoWriteFailed /\ ValidConfig) => \A k \in DOMAIN dataDir : CompleteRawFile(k)

\* A run started by an overview request that fails does not end the process:
\* the handler catches the rejection and answers 500.
ReadRunFailureIsCaught ==
    [][exited' # exited =>
          \E r \in RunIds : /\ runs[r].pc = "failed"
                            /\ runs[r].trigger \in {"timer", "startup"}]_vars
\* As long as the process lives, a request that finds a cache entry is
\* answered with it in the same step, whatever runs have failed.
FilledCacheAnswers ==
    [][(asked' # asked /\ latestOutput # NoOutput)
          => /\ reads'[asked'].state = "answered"
             /\ Unstamped(reads'[asked'].body) = Unstamped(latestOutput)]_vars

\* In one life of the process the ids grow along the log, overlapping runs
\* and failed writes included, and as long as no write fails every id given
\* out is the id of a row.
IdsOrderedAndUsedWhileNoWriteFailed ==
    /\ IdsIncreaseAlongLog
    /\ NoWriteFailed => NoIdWithoutRow

\* The target is never below the average, the lowest never above the
\* highest, and where the sum of the prices is exact (prices of few bits)
\* the average lies between the lowest and the highest.
TargetAboveAverage ==
    statistics.computed =>
        /\ Leq(statistics.averagePrice, statistics.targetPrice)
        /\ Leq(statistics.lowestPrice, statistics.highestPrice)
        /\ Range(statistics.prices) \subseteq TerminalPrices =>
              Ordered(statistics.lowestPrice, statistics.averagePrice,
                      statistics.highestPrice, statistics.targetPrice)

\* With a count of at least 1 every percentage served or stored is signed and
\* is reproduced from the rounded value and the reference next to it.
PercentagesConsistentForPositiveCount ==
    config.totalSimulations >= 1 => C31_PercentagesConsistent
\* An overview with a percentage below zero and one whose value was rounded
\* was served, and a raw file holds a falling and a rising price.
PercentagesComputed ==
    /\ \E overview \in OverviewsServed :
          /\ overview.lowest.changePercentage.hundredths < 0
          /\ overview.highest.changePercentage.hundredths > 0
          /\ overview.average.changePercentage.hundredths
                 # 1000 * (overview.average.price.n - overview.current.price)
    /\ \E k \in DOMAIN dataDir :
          \E row, other \in Range(DataRows(dataDir[k])) :
              /\ ~row.percentage_change.plus
              /\ other.percentage_change.hundredths > 0

\* As long as runs do not overlap, an answer given while a run is in flight
\* reports PROCESSING.
StatusTellsOfRunsWhileNoOverlap == [][NoOverlap => StatusTellsOfRuns]_vars
\* An overview was answered from the cache with PROCESSING while the one run
\* in flight waited for its batch.
AnsweredWhileProcessing ==
    \E k \in ReadIds :
        /\ reads[k].state = "answered"
        /\ reads[k].body.status = "PROCESSING"
        /\ reads[k].during # {}
        /\ NoOverlap

\* As long as runs do not overlap, the details of a result are those of the
\* log row its run appended.
DetailsOfOwnRunWhileNoOverlap ==
    NoOverlap => \A r \in RunIds : HasResult(r) => DetailsOfOwnRow(r)
\* The second of two runs in a row has built its result, with run count 2.
SecondResultBuilt ==
    /\ NoOverlap
    /\ HasResult(2)
    /\ runs[2].output.details.totalSimulations = 2
    /\ runs[2].output.details.dataSource = 2

\* As long as no write fails, the log row with run id k names raw file k.
RowNamesFileOfItsIdWhileNoWriteFailed ==
    NoWriteFailed => \A i \in 1..Len(LogRows) :
                         LogRows[i].data_source = LogRows[i].simulation_id
\* A row names the file of its id after a run that failed before it wrote
\* anything.
RowAfterFailedRun ==
    /\ NoWriteFailed
    /\ Len(LogRows) = 1
    /\ LogRows[1].data_source = 1
    /\ runs[1].pc = "failed"
    /\ Succeeded(2)

\* A lookup in a log whose ids have no gap (the row at position k has id k)
\* returns for every id it resolves the row of that id.
LookupReturnsRequestedIdInGaplessLog ==
    \A n \in 1..Len(queries) :
        (/\ queries[n].kind = "byIds"
         /\ queries[n].state = "answered"
         /\ \A k \in 1..Len(RowsFound(queries[n])) :
               RowsFound(queries[n])[k].simulation_id = k) =>
            ResolvedRowsHaveTheirId(queries[n])
\* The rows 2 and 1 of a log of two rows were looked up, in this order.
LookedUpBothRows ==
    /\ queries # <<>>
    /\ queries[1].kind = "byIds"
    /\ queries[1].state = "answered"
    /\ Len(queries[1].body) = 2
    /\ queries[1].body[1].kind = "row"
    /\ queries[1].body[1].simulation_id = 2
    /\ queries[1].body[2].kind = "row"
    /\ queries[1].body[2].simulation_id = 1

\* Started again after runs none of whose writes failed, with a count of at
\* least 1, init restores the counters as C40 says.
CountersRestoredWhileNoWriteFailed ==
    [][(Restarted /\ NoWriteFailed /\ ValidConfig) => CountersRestored]_vars
\* The process was started again on a log of two rows and no run came since.
RestartedOnTwoRuns ==
    /\ restarts = 1
    /\ NoWriteFailed
    /\ ValidConfig
    /\ Len(LogRows) = 2
    /\ simulationCounter = 2
    /\ simulatedData = LogRows[2].total_simulated
    /\ simulatedData = RawDataRows(DOMAIN dataDir)

====
